---- MODULE Spec2Model ----
(***************************************************************************)
(* State-machine model of the Photobooth web application:                  *)
(*   - TemplateEditor  (src/js/cropCalculator.js)  slot editor gestures    *)
(*   - Capture         (src/js/capture.js)         countdown sequencer     *)
(*   - Camera          (src/js/camera.js)          stream management       *)
(*   - TemplateStorage (src/js/templateStorage.js) persisted templates     *)
(*   - Templates       (src/js/templates.js)       template registry       *)
(*   - App             (src/unnamed/part_004)      screen controller       *)
(* Each component has its own specification (SpecEditor, SpecSlots, ...);  *)
(* a specification leaves the variables of the other components unchanged. *)
(***************************************************************************)
EXTENDS Integers, Sequences, FiniteSets, TLC

VARIABLES
    \* ---- TemplateEditor ----
    frameWidth,        \* state.frameWidth (frame pixels)
    frameHeight,       \* state.frameHeight
    shotCount,         \* state.shotCount
    photoSlots,        \* state.photoSlots: sequence of [x, y, width, height]
    editingSlotIndex,  \* state.editingSlotIndex, -1 = none (JS 0-based index)
    scale,             \* display scale, held as its denominator: scale = 1/scale
    viewport,          \* the scale the container size currently asks for
    isDragging,
    isResizing,
    dragStart,         \* [x, y] in display sub-pixels
    activeSlot,        \* JS index of the slot of the gesture, Null = null
    resizeHandle,      \* "tl" | "tr" | "bl" | "br" | "null"
    \* ---- Capture ----
    countdownSeconds,  \* Capture.countdownSeconds
    isCapturing,       \* Capture.isCapturing
    countdownInterval, \* id of the interval last stored, 0 = null
    timers,            \* pending setInterval / setTimeout timers of Capture
    nextTimer,         \* number of timer ids handed out so far
    calls,             \* one record per startCapture / startMultiCapture call
    countdownDisplay,  \* number shown by the countdown display, 0 = hidden
    shotIndicator,     \* <<current, total>> shown, <<>> = hidden
    \* ---- App ----
    currentScreen,     \* state.currentScreen
    selectedShots,     \* state.selectedTemplate.shots, 0 = no template
    capturedFrames,    \* contents of the array state.capturedFrames refers to
    capturedCanvas,    \* state.capturedCanvas: <<>> = null, else <<frames drawn>>
    composites,        \* compositeStrip calls whose frame artwork is still loading
    \* ---- Camera ----
    currentStream,     \* Camera.currentStream: id of the stream, 0 = null
    srcObject,         \* videoElement.srcObject, 0 = null
    liveStreams,       \* acquired streams whose tracks have not been stopped
    pendingGum,        \* getUserMedia calls that have not settled
    gumCount,          \* getUserMedia calls made so far
    cameraStopped,     \* history: stopCamera() was called and startCamera() not since
    \* ---- TemplateStorage / Templates ----
    store,             \* the template list persisted under STORAGE_KEY
    now,               \* Date.now()
    selectedTemplateId,\* Templates.selectedTemplateId, "" = null
    result,            \* the last store / registry call and how it ended
    \* ---- CropCalculator and its callers ----
    cropCall,          \* the last crop computation: function, inputs, result
    \* ---- CanvasCompositor ----
    shotFrames,        \* the frames captureFrame has returned, in order
    promises,          \* the promises compositeStrip has returned
    \* ---- TemplateEditor: the template being edited ----
    templateName,      \* state.templateName
    templateId,        \* state.templateId, "" = null
    createdAt,         \* state.createdAt, Null = null
    frameImage,        \* state.frameImage: "null" or "image"
    framePreviewSrc,   \* elements.framePreviewImg.src, a data URL
    loadingImage,      \* the data URLs of the images loadTemplate is loading
    \* ---- App: error modal ----
    errorModal,        \* the error the modal shows, "" = hidden
    \* ---- TemplateUploader ----
    uploadCall,        \* the last processUpload call: the file and the outcome
    \* ---- TemplateEditor: confirm() ----
    confirmDialog      \* the last confirm() of handleShotCountChange and its answer

edVars == <<frameWidth, frameHeight, shotCount, photoSlots, editingSlotIndex,
            scale, viewport, isDragging, isResizing, dragStart, activeSlot,
            resizeHandle>>

capVars == <<countdownSeconds, isCapturing, countdownInterval, timers, nextTimer,
             calls, countdownDisplay, shotIndicator>>

appVars == <<currentScreen, selectedShots, capturedFrames, capturedCanvas, composites>>

camVars == <<currentStream, srcObject, liveStreams, pendingGum, gumCount, cameraStopped>>

stVars == <<store, now, selectedTemplateId, result>>

compVars == <<shotFrames, promises>>

metaVars == <<templateName, templateId, createdAt, frameImage, framePreviewSrc, loadingImage>>

vars == <<edVars, capVars, appVars, camVars, stVars, cropCall, compVars, metaVars, errorModal,
          uploadCall, confirmDialog>>

Max(a, b) == IF a >= b THEN a ELSE b
Min(a, b) == IF a <= b THEN a ELSE b
Abs(a) == IF a >= 0 THEN a ELSE -a

Null == -1

(***************************************************************************)
(* TemplateEditor                                                          *)
(***************************************************************************)
HANDLE_SIZE == 12
MIN_SLOT_SIZE == 50

\* The display scale is 1/d for a d in ScaleDens (renderEditor never scales up).
MaxScaleDen == 2
ScaleDens == 1..MaxScaleDen

\* Display coordinates are counted in sub-pixels, Sub per CSS pixel, so that
\* slot.x * scale is a whole number for every scale 1/d, d in ScaleDens.
RECURSIVE CommonMultiple(_)
CommonMultiple(n) == IF n <= 1 THEN 1 ELSE n * CommonMultiple(n - 1)
Sub == CommonMultiple(MaxScaleDen)

\* Bounds of the editor model.
FrameW == 52
FrameH == 51
\* pointer positions in CSS pixels, relative to the canvas (may lie outside it)
PointerPts == {<<-3, -2>>, <<1, 0>>, <<13, 12>>, <<26, 25>>, <<51, 50>>, <<60, 61>>}

\* v * scale, in display sub-pixels
ToDisplay(v, den) == (v * Sub) \div den
\* d / scale, in frame pixels (callers make sure the quotient is whole)
ToFrame(d, den) == (d * den) \div Sub
Exact(d, den) == (d * den) % Sub = 0

Slot(x, y, w, h) == [x |-> x, y |-> y, width |-> w, height |-> h]

\* The six inequalities of the slot containment invariant.
SlotContained(s, fw, fh) ==
    /\ s.x >= 0
    /\ s.y >= 0
    /\ s.x + s.width <= fw
    /\ s.y + s.height <= fh
    /\ s.width >= MIN_SLOT_SIZE
    /\ s.height >= MIN_SLOT_SIZE

\* checkResizeHandleHit(x, y, slotIndex): x, y in display sub-pixels
checkResizeHandleHit(x, y, slot, den) ==
    LET sx == ToDisplay(slot.x, den)
        sy == ToDisplay(slot.y, den)
        sw == ToDisplay(slot.width, den)
        sh == ToDisplay(slot.height, den)
        tolerance == (HANDLE_SIZE * Sub) \div 2 + 3 * Sub
    IN  IF Abs(x - sx) < tolerance /\ Abs(y - sy) < tolerance THEN "tl"
        ELSE IF Abs(x - (sx + sw)) < tolerance /\ Abs(y - sy) < tolerance THEN "tr"
        ELSE IF Abs(x - sx) < tolerance /\ Abs(y - (sy + sh)) < tolerance THEN "bl"
        ELSE IF Abs(x - (sx + sw)) < tolerance /\ Abs(y - (sy + sh)) < tolerance THEN "br"
        ELSE "null"

\* the hit test of the mousedown loop for one slot
PointInSlot(x, y, slot, den) ==
    LET sx == ToDisplay(slot.x, den)
        sy == ToDisplay(slot.y, den)
        sw == ToDisplay(slot.width, den)
        sh == ToDisplay(slot.height, den)
    IN  x >= sx /\ x <= sx + sw /\ y >= sy /\ y <= sy + sh

\* the JS index found by the loop "for (i = length - 1; i >= 0; i--)", or Null
TopSlotAtMutBottom(x, y, slots, den) ==
    LET hits == {i \in 0..(Len(slots) - 1) : PointInSlot(x, y, slots[i + 1], den)}
    IN  IF hits = {} THEN Null ELSE CHOOSE i \in hits : \A j \in hits : i <= j

TopSlotAt(x, y, slots, den) ==
    LET hits == {i \in 0..(Len(slots) - 1) : PointInSlot(x, y, slots[i + 1], den)}
    IN  IF hits = {} THEN Null ELSE CHOOSE i \in hits : \A j \in hits : j <= i

\* the move branch of handleMouseMove: clamp into the frame
MoveSlotMutNoClamp(slot, newX, newY, fw, fh) ==
    [slot EXCEPT !.x = Max(0, newX), !.y = Max(0, newY)]

MoveSlot(slot, newX, newY, fw, fh) ==
    [slot EXCEPT !.x = Max(0, Min(newX, fw - slot.width)),
                 !.y = Max(0, Min(newY, fh - slot.height))]

\* resizeSlot(x, y) with newX = x / scale, newY = y / scale
resizeSlotMutKeepSize(slot, handle, newX, newY, fw, fh) ==
    LET originalRight == slot.x + slot.width
        originalBottom == slot.y + slot.height
        brW == Max(MIN_SLOT_SIZE, Min(newX - slot.x, fw - slot.x))
        brH == Max(MIN_SLOT_SIZE, Min(newY - slot.y, fh - slot.y))
        tlX == Max(0, Min(newX, originalRight - MIN_SLOT_SIZE))
        tlY == Max(0, Min(newY, originalBottom - MIN_SLOT_SIZE))
    IN  CASE handle = "br" -> Slot(slot.x, slot.y, brW, brH)
          [] handle = "tr" -> Slot(slot.x, tlY, brW, slot.height)
          [] handle = "bl" -> Slot(tlX, slot.y, slot.width, brH)
          [] handle = "tl" -> Slot(tlX, tlY, slot.width, slot.height)
          [] OTHER -> slot

resizeSlot(slot, handle, newX, newY, fw, fh) ==
    LET originalRight == slot.x + slot.width
        originalBottom == slot.y + slot.height
        brW == Max(MIN_SLOT_SIZE, Min(newX - slot.x, fw - slot.x))
        brH == Max(MIN_SLOT_SIZE, Min(newY - slot.y, fh - slot.y))
        tlX == Max(0, Min(newX, originalRight - MIN_SLOT_SIZE))
        tlY == Max(0, Min(newY, originalBottom - MIN_SLOT_SIZE))
    IN  CASE handle = "br" -> Slot(slot.x, slot.y, brW, brH)
          [] handle = "tr" -> Slot(slot.x, tlY, brW, originalBottom - tlY)
          [] handle = "bl" -> Slot(tlX, slot.y, originalRight - tlX, brH)
          [] handle = "tl" -> Slot(tlX, tlY, originalRight - tlX, originalBottom - tlY)
          [] OTHER -> slot

\* renderEditor(): recomputes the display scale from the container size
RenderScale == viewport

\* slot lists the editor can start a gesture from: every slot contained
InitSlotChoices ==
    {Slot(0, 0, MIN_SLOT_SIZE, MIN_SLOT_SIZE),
     Slot(1, 0, MIN_SLOT_SIZE, MIN_SLOT_SIZE + 1)}

InitEditor ==
    /\ frameWidth = FrameW
    /\ frameHeight = FrameH
    /\ shotCount = 2
    /\ photoSlots \in {<<a, b>> : a \in InitSlotChoices, b \in InitSlotChoices}
    /\ \A i \in 1..Len(photoSlots) : SlotContained(photoSlots[i], FrameW, FrameH)
    /\ editingSlotIndex = -1
    /\ scale \in ScaleDens
    /\ viewport = scale
    /\ isDragging = FALSE
    /\ isResizing = FALSE
    /\ dragStart = [x |-> 0, y |-> 0]
    /\ activeSlot = Null
    /\ resizeHandle = "null"

\* handleMouseDown, first branch: a resize handle of the selected slot is hit
MouseDownHandle(x, y) ==
    /\ editingSlotIndex # -1
    /\ editingSlotIndex < Len(photoSlots)
    /\ LET hit == checkResizeHandleHit(x, y, photoSlots[editingSlotIndex + 1], scale)
       IN  /\ hit # "null"
           /\ isResizing' = TRUE
           /\ activeSlot' = editingSlotIndex
           /\ resizeHandle' = hit
           /\ dragStart' = [x |-> x, y |-> y]
    /\ UNCHANGED <<frameWidth, frameHeight, shotCount, photoSlots,
                   editingSlotIndex, scale, viewport, isDragging>>

NoHandleHit(x, y) ==
    IF editingSlotIndex = -1 THEN TRUE
    ELSE /\ editingSlotIndex < Len(photoSlots)
         /\ checkResizeHandleHit(x, y, photoSlots[editingSlotIndex + 1], scale) = "null"

\* handleMouseDown, second branch: the topmost slot under the pointer
MouseDownSlot(x, y) ==
    /\ NoHandleHit(x, y)
    /\ LET i == TopSlotAt(x, y, photoSlots, scale)
       IN  /\ i # Null
           /\ isDragging' = TRUE
           /\ activeSlot' = i
           /\ editingSlotIndex' = i
           /\ dragStart' = [x |-> x - ToDisplay(photoSlots[i + 1].x, scale),
                            y |-> y - ToDisplay(photoSlots[i + 1].y, scale)]
    /\ scale' = RenderScale
    /\ UNCHANGED <<frameWidth, frameHeight, shotCount, photoSlots, viewport,
                   isResizing, resizeHandle>>

\* handleMouseDown, last branch: clicked outside, deselect
MouseDownOutside(x, y) ==
    /\ NoHandleHit(x, y)
    /\ TopSlotAt(x, y, photoSlots, scale) = Null
    /\ editingSlotIndex' = -1
    /\ scale' = RenderScale
    /\ UNCHANGED <<frameWidth, frameHeight, shotCount, photoSlots, viewport,
                   isDragging, isResizing, dragStart, activeSlot, resizeHandle>>

handleMouseDown(x, y) ==
    \/ MouseDownHandle(x, y)
    \/ MouseDownSlot(x, y)
    \/ MouseDownOutside(x, y)

\* handleMouseMove, move branch
MouseMoveDrag(x, y) ==
    /\ isDragging /\ activeSlot # Null
    /\ activeSlot < Len(photoSlots)
    /\ Exact(x - dragStart.x, scale) /\ Exact(y - dragStart.y, scale)
    /\ LET newX == ToFrame(x - dragStart.x, scale)
           newY == ToFrame(y - dragStart.y, scale)
       IN  photoSlots' = [photoSlots EXCEPT ![activeSlot + 1] =
                             MoveSlot(@, newX, newY, frameWidth, frameHeight)]
    /\ scale' = RenderScale
    /\ UNCHANGED <<frameWidth, frameHeight, shotCount, editingSlotIndex, viewport,
                   isDragging, isResizing, dragStart, activeSlot, resizeHandle>>

\* handleMouseMove, resize branch
MouseMoveResize(x, y) ==
    /\ ~(isDragging /\ activeSlot # Null)
    /\ isResizing /\ activeSlot # Null
    /\ activeSlot < Len(photoSlots)
    /\ Exact(x, scale) /\ Exact(y, scale)
    /\ photoSlots' = [photoSlots EXCEPT ![activeSlot + 1] =
                         resizeSlot(@, resizeHandle, ToFrame(x, scale),
                                    ToFrame(y, scale), frameWidth, frameHeight)]
    /\ scale' = RenderScale
    /\ UNCHANGED <<frameWidth, frameHeight, shotCount, editingSlotIndex, viewport,
                   isDragging, isResizing, dragStart, activeSlot, resizeHandle>>

\* handleMouseMove, hover branch: updateCursor only
MouseMoveHover(x, y) ==
    /\ ~(isDragging /\ activeSlot # Null)
    /\ ~(isResizing /\ activeSlot # Null)
    /\ UNCHANGED <<frameWidth, frameHeight, shotCount, photoSlots, editingSlotIndex,
                   scale, viewport, isDragging, isResizing, dragStart, activeSlot,
                   resizeHandle>>

handleMouseMove(x, y) ==
    \/ MouseMoveDrag(x, y)
    \/ MouseMoveResize(x, y)
    \/ MouseMoveHover(x, y)

\* handleMouseUp (also bound to mouseleave)
handleMouseUp ==
    /\ isDragging' = FALSE
    /\ isResizing' = FALSE
    /\ activeSlot' = Null
    /\ resizeHandle' = "null"
    /\ UNCHANGED <<frameWidth, frameHeight, shotCount, photoSlots, editingSlotIndex,
                   scale, viewport, dragStart>>

\* the container is resized; the editor notices at its next renderEditor()
ResizeViewport ==
    /\ \E d \in ScaleDens : d # viewport /\ viewport' = d
    /\ UNCHANGED <<frameWidth, frameHeight, shotCount, photoSlots, editingSlotIndex,
                   scale, isDragging, isResizing, dragStart, activeSlot, resizeHandle>>

NextEditor ==
    \/ \E p \in PointerPts : MouseDownHandle(Sub * p[1], Sub * p[2]) /\ UNCHANGED <<capVars, appVars, camVars, stVars, cropCall, compVars, metaVars, errorModal, uploadCall, confirmDialog>>
    \/ \E p \in PointerPts : MouseDownSlot(Sub * p[1], Sub * p[2]) /\ UNCHANGED <<capVars, appVars, camVars, stVars, cropCall, compVars, metaVars, errorModal, uploadCall, confirmDialog>>
    \/ \E p \in PointerPts : MouseDownOutside(Sub * p[1], Sub * p[2]) /\ UNCHANGED <<capVars, appVars, camVars, stVars, cropCall, compVars, metaVars, errorModal, uploadCall, confirmDialog>>
    \/ \E p \in PointerPts : MouseMoveDrag(Sub * p[1], Sub * p[2]) /\ UNCHANGED <<capVars, appVars, camVars, stVars, cropCall, compVars, metaVars, errorModal, uploadCall, confirmDialog>>
    \/ \E p \in PointerPts : MouseMoveResize(Sub * p[1], Sub * p[2]) /\ UNCHANGED <<capVars, appVars, camVars, stVars, cropCall, compVars, metaVars, errorModal, uploadCall, confirmDialog>>
    \/ \E p \in PointerPts : MouseMoveHover(Sub * p[1], Sub * p[2]) /\ UNCHANGED <<capVars, appVars, camVars, stVars, cropCall, compVars, metaVars, errorModal, uploadCall, confirmDialog>>
    \/ handleMouseUp /\ UNCHANGED <<capVars, appVars, camVars, stVars, cropCall, compVars, metaVars, errorModal, uploadCall, confirmDialog>>
    \/ ResizeViewport /\ UNCHANGED <<capVars, appVars, camVars, stVars, cropCall, compVars, metaVars, errorModal, uploadCall, confirmDialog>>

\* let state = {..., templateName: '', templateId: null, createdAt: null}
InitMeta ==
    /\ templateName = ""
    /\ templateId = ""
    /\ createdAt = Null
    /\ frameImage = IF frameWidth = 0 THEN "null" ELSE "image"
    /\ framePreviewSrc = [mime |-> "", length |-> 0]
    /\ loadingImage = {}

(***************************************************************************)
(* TemplateEditor: frame loading and default slots                         *)
(***************************************************************************)
MIN_DIMENSION == 500
MAX_DIMENSION == 4000
AllowedShots == {2, 3}

\* frame sizes the upload validator accepts, sampled every DimStep pixels
DimStep == 250
UploadDims == {d \in MIN_DIMENSION..MAX_DIMENSION : (d - MIN_DIMENSION) % DimStep = 0}

\* the data URL of an uploaded PNG; object fields are a data URL's MIME type
\* and length
UploadedPng == [mime |-> "image/png", length |-> 100]

\* TemplateUploader.loadImage: the dimension checks of img.onload
DimensionsAccepted(w, h) ==
    /\ ~(w < MIN_DIMENSION \/ h < MIN_DIMENSION)
    /\ ~(w > MAX_DIMENSION \/ h > MAX_DIMENSION)

\* Math.floor(v * p / 100) for the percentages of initializeDefaultSlots
FloorPercent(v, p) == (v * p) \div 100

\* initializeDefaultSlots(shotCount) on a frame of fw x fh
initializeDefaultSlots(fw, fh, n) ==
    LET margin == FloorPercent(fw, 12)
        slotWidth == FloorPercent(fw, 77)
        gap == FloorPercent(fh, 4)
        availableHeight == fh - 2 * margin
        totalGapHeight == gap * (n - 1)
        slotHeight == (availableHeight - totalGapHeight) \div n
    IN  [i \in 1..n |-> Slot(margin, margin + (i - 1) * (slotHeight + gap),
                             slotWidth, slotHeight)]

\* resetEditor(): the state of a fresh editor
InitSlots ==
    /\ frameWidth = 0
    /\ frameHeight = 0
    /\ shotCount = 2
    /\ photoSlots = <<>>
    /\ editingSlotIndex = -1
    /\ scale = 1
    /\ viewport = 1
    /\ isDragging = FALSE
    /\ isResizing = FALSE
    /\ dragStart = [x |-> 0, y |-> 0]
    /\ activeSlot = Null
    /\ resizeHandle = "null"

\* loadFrameImage(imageData)
loadFrameImage(w, h) ==
    /\ DimensionsAccepted(w, h)
    /\ frameWidth' = w
    /\ frameHeight' = h
    /\ photoSlots' = initializeDefaultSlots(w, h, shotCount)
    /\ scale' = RenderScale
    /\ frameImage' = "image"
    /\ UNCHANGED <<shotCount, editingSlotIndex, viewport, isDragging, isResizing,
                   dragStart, activeSlot, resizeHandle>>
    /\ UNCHANGED <<templateName, templateId, createdAt, loadingImage>>

\* handleFileUpload(event): processUpload accepted the file
handleFileUpload(w, h, dataUrl) ==
    /\ framePreviewSrc' = dataUrl
    /\ loadFrameImage(w, h)

InitConfirm == confirmDialog = [newCount |-> 0, accepted |-> FALSE]

\* handleShotCountChange(e): the user picks n and answers the confirm()
handleShotCountChangeMutNoConfirm(n, accepted) ==
    /\ confirmDialog' = [newCount |-> n, accepted |-> accepted]
    /\ shotCount' = n
    /\ photoSlots' = initializeDefaultSlots(frameWidth, frameHeight, n)
    /\ scale' = IF frameWidth = 0 THEN scale ELSE RenderScale
    /\ UNCHANGED <<frameWidth, frameHeight, editingSlotIndex, viewport, isDragging,
                   isResizing, dragStart, activeSlot, resizeHandle>>

handleShotCountChange(n, accepted) ==
    /\ confirmDialog' = [newCount |-> n, accepted |-> accepted]
    /\ IF accepted
       THEN /\ shotCount' = n
            /\ photoSlots' = initializeDefaultSlots(frameWidth, frameHeight, n)
            /\ scale' = IF frameWidth = 0 THEN scale ELSE RenderScale
       ELSE UNCHANGED <<shotCount, photoSlots, scale>>
    /\ UNCHANGED <<frameWidth, frameHeight, editingSlotIndex, viewport, isDragging,
                   isResizing, dragStart, activeSlot, resizeHandle>>

\* the reset-slots button
ResetSlots ==
    /\ photoSlots' = initializeDefaultSlots(frameWidth, frameHeight, shotCount)
    /\ scale' = IF frameWidth = 0 THEN scale ELSE RenderScale
    /\ UNCHANGED <<frameWidth, frameHeight, shotCount, editingSlotIndex, viewport,
                   isDragging, isResizing, dragStart, activeSlot, resizeHandle>>

NextSlots ==
    \/ \E w \in UploadDims, h \in UploadDims : handleFileUpload(w, h, UploadedPng) /\ UNCHANGED <<capVars, appVars, camVars, stVars, cropCall, compVars, errorModal, uploadCall, confirmDialog>>
    \/ \E n \in AllowedShots, accepted \in BOOLEAN : n # shotCount /\ handleShotCountChange(n, accepted) /\ UNCHANGED <<capVars, appVars, camVars, stVars, cropCall, compVars, metaVars, errorModal, uploadCall>>
    \/ frameWidth # 0 /\ ResetSlots /\ UNCHANGED <<capVars, appVars, camVars, stVars, cropCall, compVars, metaVars, errorModal, uploadCall, confirmDialog>>

(***************************************************************************)
(* Capture: countdown sequencer                                            *)
(***************************************************************************)
\* Bounds of the sequencer model.
DefaultCountdown == 3 \* let countdownSeconds = 3
MaxCountdown == 1     \* setCountdown is called with 0..MaxCountdown seconds
MaxShots == 2         \* totalShots 0..MaxShots
MaxCalls == 2         \* start calls in one behaviour
MaxTimers == 9        \* timer ids handed out in one behaviour
MaxOverrun == 1       \* ticks an interval that was not cleared may run below 0

Timer(id, c, kind, remaining) ==
    [id |-> id, call |-> c, kind |-> kind, remaining |-> remaining]

Call(mode, total, accepted) ==
    [mode |-> mode, total |-> total, accepted |-> accepted, currentShot |-> 0,
     shotLog |-> <<>>, completed |-> 0, cancelled |-> FALSE, logAtCancel |-> 0]

InitCapture ==
    /\ countdownSeconds = DefaultCountdown
    /\ isCapturing = FALSE
    /\ countdownInterval = 0
    /\ timers = {}
    /\ nextTimer = 0
    /\ calls = <<>>
    /\ countdownDisplay = 0
    /\ shotIndicator = <<>>

\* clearInterval(id): a cleared or unknown id is ignored
clearInterval(ts, id) == {u \in ts : ~(u.kind = "interval" /\ u.id = id)}

\* a variant that shows the flash but never schedules the callback
triggerCaptureWithCallbackMutNoTimeout(ts, c) == ts

\* triggerCaptureWithCallback(callback): setTimeout(callback, 150)
triggerCaptureWithCallback(ts, c) == ts \cup {Timer(nextTimer + 1, c, "flash", 0)}

\* setCountdown(seconds)
setCountdown(sec) ==
    /\ countdownSeconds' = sec
    /\ UNCHANGED <<isCapturing, countdownInterval, timers, nextTimer, calls,
                   countdownDisplay, shotIndicator>>

\* the body of startCapture / captureNextShot that starts one countdown:
\* straight to the flash when countdownSeconds is 0, else a 1 s interval
StartCountdown(ts, c) ==
    /\ nextTimer < MaxTimers
    /\ nextTimer' = nextTimer + 1
    /\ IF countdownSeconds = 0
       THEN /\ timers' = triggerCaptureWithCallback(ts, c)
            /\ UNCHANGED <<countdownInterval, countdownDisplay>>
       ELSE /\ timers' = ts \cup {Timer(nextTimer + 1, c, "interval", countdownSeconds)}
            /\ countdownInterval' = nextTimer + 1
            /\ countdownDisplay' = countdownSeconds

\* a variant of the busy check that lets every call through
BusyMutNever == FALSE

\* isBusy(): the guard at the top of startCapture and startMultiCapture
Busy == isCapturing

\* startCapture(onComplete)
startCapture ==
    /\ Len(calls) < MaxCalls
    /\ IF Busy
       THEN /\ calls' = Append(calls, Call("single", 1, FALSE))
            /\ UNCHANGED <<countdownSeconds, isCapturing, countdownInterval, timers,
                           nextTimer, countdownDisplay, shotIndicator>>
       ELSE /\ calls' = Append(calls, Call("single", 1, TRUE))
            /\ isCapturing' = TRUE
            /\ StartCountdown(timers, Len(calls) + 1)
            /\ UNCHANGED <<countdownSeconds, shotIndicator>>

\* captureNextShot() of call c, run on the state (cs, ts, busy)
captureNextShot(c, cs, ts, busy) ==
    IF cs[c].currentShot >= cs[c].total
    THEN /\ isCapturing' = FALSE
         /\ shotIndicator' = <<>>
         /\ calls' = [cs EXCEPT ![c].completed = @ + 1]
         /\ timers' = ts
         /\ UNCHANGED <<countdownInterval, countdownDisplay, nextTimer>>
    ELSE /\ isCapturing' = busy
         /\ shotIndicator' = <<cs[c].currentShot + 1, cs[c].total>>
         /\ calls' = cs
         /\ StartCountdown(ts, c)

\* startMultiCapture(totalShots, onEachShot, onAllComplete)
startMultiCapture(total) ==
    /\ Len(calls) < MaxCalls
    /\ IF Busy
       THEN /\ calls' = Append(calls, Call("multi", total, FALSE))
            /\ UNCHANGED <<countdownSeconds, isCapturing, countdownInterval, timers,
                           nextTimer, countdownDisplay, shotIndicator>>
       ELSE /\ captureNextShot(Len(calls) + 1,
                               Append(calls, Call("multi", total, TRUE)), timers, TRUE)
            /\ UNCHANGED countdownSeconds

\* cancelCapture()
cancelCapture ==
    /\ IF countdownInterval # 0
       THEN timers' = clearInterval(timers, countdownInterval)
       ELSE timers' = timers
    /\ countdownInterval' = 0
    /\ countdownDisplay' = 0
    /\ shotIndicator' = <<>>
    /\ isCapturing' = FALSE
    /\ calls' = [c \in 1..Len(calls) |->
                    IF calls[c].accepted /\ calls[c].completed = 0 /\ ~calls[c].cancelled
                    THEN [calls[c] EXCEPT !.cancelled = TRUE,
                                          !.logAtCancel = Len(calls[c].shotLog)]
                    ELSE calls[c]]
    /\ UNCHANGED <<countdownSeconds, nextTimer>>

\* one tick of a countdown interval (the setInterval callbacks of
\* startCapture and captureNextShot)
IntervalTick(t) ==
    /\ t \in timers /\ t.kind = "interval"
    /\ t.remaining - 1 >= 0 - MaxOverrun
    /\ LET rem == t.remaining - 1
           ticked == (timers \ {t}) \cup {[t EXCEPT !.remaining = rem]}
       IN  IF rem <= 0
           THEN /\ nextTimer < MaxTimers
                /\ nextTimer' = nextTimer + 1
                /\ timers' = triggerCaptureWithCallback(
                                 clearInterval(ticked, countdownInterval), t.call)
                /\ countdownDisplay' = 0
           ELSE /\ timers' = ticked
                /\ countdownDisplay' = rem
                /\ UNCHANGED nextTimer
    /\ UNCHANGED <<countdownSeconds, isCapturing, countdownInterval, calls, shotIndicator>>

\* the 150 ms timeout set by triggerCaptureWithCallback fires
FlashFire(t) ==
    /\ t \in timers /\ t.kind = "flash"
    /\ IF calls[t.call].mode = "single"
       THEN \* triggerCapture: isCapturing = false; onComplete()
            /\ isCapturing' = FALSE
            /\ calls' = [calls EXCEPT ![t.call].completed = @ + 1]
            /\ timers' = timers \ {t}
            /\ UNCHANGED nextTimer
       ELSE \* onEachShot(currentShot); currentShot++; setTimeout(captureNextShot, 1500)
            /\ nextTimer < MaxTimers
            /\ nextTimer' = nextTimer + 1
            /\ calls' = [calls EXCEPT ![t.call].shotLog = Append(@, calls[t.call].currentShot),
                                      ![t.call].currentShot = @ + 1]
            /\ timers' = (timers \ {t}) \cup {Timer(nextTimer + 1, t.call, "delay", 0)}
            /\ UNCHANGED isCapturing
    /\ UNCHANGED <<countdownSeconds, countdownInterval, countdownDisplay, shotIndicator>>

\* the 1.5 s inter-shot timeout fires: captureNextShot()
DelayFire(t) ==
    /\ t \in timers /\ t.kind = "delay"
    /\ captureNextShot(t.call, calls, timers \ {t}, isCapturing)
    /\ UNCHANGED countdownSeconds

NextCapture ==
    \/ \E sec \in 0..MaxCountdown : sec # countdownSeconds /\ setCountdown(sec) /\ UNCHANGED <<edVars, appVars, camVars, stVars, cropCall, compVars, metaVars, errorModal, uploadCall, confirmDialog>>
    \/ startCapture /\ UNCHANGED <<edVars, appVars, camVars, stVars, cropCall, compVars, metaVars, errorModal, uploadCall, confirmDialog>>
    \/ \E n \in 0..MaxShots : startMultiCapture(n) /\ UNCHANGED <<edVars, appVars, camVars, stVars, cropCall, compVars, metaVars, errorModal, uploadCall, confirmDialog>>
    \/ cancelCapture /\ UNCHANGED <<edVars, appVars, camVars, stVars, cropCall, compVars, metaVars, errorModal, uploadCall, confirmDialog>>
    \/ \E t \in timers : IntervalTick(t) /\ UNCHANGED <<edVars, appVars, camVars, stVars, cropCall, compVars, metaVars, errorModal, uploadCall, confirmDialog>>
    \/ \E t \in timers : FlashFire(t) /\ UNCHANGED <<edVars, appVars, camVars, stVars, cropCall, compVars, metaVars, errorModal, uploadCall, confirmDialog>>
    \/ \E t \in timers : DelayFire(t) /\ UNCHANGED <<edVars, appVars, camVars, stVars, cropCall, compVars, metaVars, errorModal, uploadCall, confirmDialog>>

\* the sequencer without cancelCapture; a capture is started only when the
\* timer ids it needs are left: an interval, a flash and a delay per shot
TimersLeft(shots) == nextTimer + 3 * shots <= MaxTimers

NextSequencer ==
    \/ \E sec \in 0..MaxCountdown : sec # countdownSeconds /\ setCountdown(sec) /\ UNCHANGED <<edVars, appVars, camVars, stVars, cropCall, compVars, metaVars, errorModal, uploadCall, confirmDialog>>
    \/ TimersLeft(1) /\ startCapture /\ UNCHANGED <<edVars, appVars, camVars, stVars, cropCall, compVars, metaVars, errorModal, uploadCall, confirmDialog>>
    \/ \E n \in 0..MaxShots : TimersLeft(n) /\ startMultiCapture(n) /\ UNCHANGED <<edVars, appVars, camVars, stVars, cropCall, compVars, metaVars, errorModal, uploadCall, confirmDialog>>
    \/ \E t \in timers : IntervalTick(t) /\ UNCHANGED <<edVars, appVars, camVars, stVars, cropCall, compVars, metaVars, errorModal, uploadCall, confirmDialog>>
    \/ \E t \in timers : FlashFire(t) /\ UNCHANGED <<edVars, appVars, camVars, stVars, cropCall, compVars, metaVars, errorModal, uploadCall, confirmDialog>>
    \/ \E t \in timers : DelayFire(t) /\ UNCHANGED <<edVars, appVars, camVars, stVars, cropCall, compVars, metaVars, errorModal, uploadCall, confirmDialog>>

\* setInterval and setTimeout callbacks are run by the event loop
TimerFires ==
    \E t \in timers : (IntervalTick(t) \/ FlashFire(t) \/ DelayFire(t)) /\ UNCHANGED <<edVars, appVars, camVars, stVars, cropCall, compVars, metaVars, errorModal, uploadCall, confirmDialog>>

(***************************************************************************)
(* App: screen controller and capture flow                                 *)
(***************************************************************************)
Frame(c, shot) == [call |-> c, shot |-> shot]

\* a pending compositeStrip(frames, template, false): `frames` is the array it
\* was handed, `snapshot` its contents at the call, `live` tells whether
\* state.capturedFrames still refers to that array
Composite(c, shots, frames) ==
    [call |-> c, shots |-> shots, snapshot |-> frames, frames |-> frames, live |-> TRUE]

InitApp ==
    /\ currentScreen = "landing"
    /\ selectedShots = 0
    /\ capturedFrames = <<>>
    /\ capturedCanvas = <<>>
    /\ composites = {}

\* state.capturedFrames = []: a new array; pending composites keep the old one
NewFrameArray ==
    /\ capturedFrames' = <<>>
    /\ composites' = {[k EXCEPT !.live = FALSE] : k \in composites}

\* state.capturedFrames.push(frame): seen by whoever holds the same array
PushFrame(f) ==
    /\ capturedFrames' = Append(capturedFrames, f)
    /\ composites' = {IF k.live THEN [k EXCEPT !.frames = Append(@, f)] ELSE k : k \in composites}

\* btnStart: showScreen('templates')
BtnStart ==
    /\ currentScreen = "landing"
    /\ currentScreen' = "templates"
    /\ UNCHANGED <<selectedShots, capturedFrames, capturedCanvas, composites, capVars>>

\* btnBackLanding: showScreen('landing')
BtnBackLanding ==
    /\ currentScreen = "templates"
    /\ currentScreen' = "landing"
    /\ UNCHANGED <<selectedShots, capturedFrames, capturedCanvas, composites, capVars>>

\* startCameraScreen(): selected template, camera screen, empty frame list
startCameraScreen(shots) ==
    /\ selectedShots' = shots
    /\ currentScreen' = "camera"
    /\ NewFrameArray

\* a template choice button: Templates.select(id); startCameraScreen()
SelectTemplate(shots) ==
    /\ currentScreen = "templates"
    /\ startCameraScreen(shots)
    /\ UNCHANGED <<capturedCanvas, capVars>>

\* a timer button: Capture.setCountdown(seconds)
selectTimer(sec) ==
    /\ currentScreen = "camera"
    /\ setCountdown(sec)
    /\ UNCHANGED appVars

\* btnCapture: capturePhoto() -> captureStrip(shots)
capturePhoto ==
    /\ currentScreen = "camera"
    /\ ~Busy
    /\ selectedShots > 1
    /\ NewFrameArray
    /\ startMultiCapture(selectedShots)
    /\ UNCHANGED <<currentScreen, selectedShots, capturedCanvas>>

\* btnBackTemplates: stopCamera, cancelCapture, drop the frames, templates screen
BtnBackTemplates ==
    /\ currentScreen = "camera"
    /\ cancelCapture
    /\ NewFrameArray
    /\ currentScreen' = "templates"
    /\ UNCHANGED <<selectedShots, capturedCanvas>>

\* btnRetake: retakePhoto()
retakePhoto ==
    /\ currentScreen = "review"
    /\ capturedCanvas' = <<>>
    /\ startCameraScreen(selectedShots)
    /\ UNCHANGED capVars

\* btnNewPhoto
BtnNewPhoto ==
    /\ currentScreen = "review"
    /\ currentScreen' = "templates"
    /\ capturedCanvas' = <<>>
    /\ NewFrameArray
    /\ UNCHANGED <<selectedShots, capVars>>

\* a countdown tick: no callback of the App runs
AppIntervalTick(t) ==
    /\ IntervalTick(t)
    /\ UNCHANGED appVars

\* the flash timeout: captureStrip's per-shot callback pushes the frame
AppFlashFire(t) ==
    /\ FlashFire(t)
    /\ PushFrame(Frame(t.call, calls[t.call].currentShot))
    /\ UNCHANGED <<currentScreen, selectedShots, capturedCanvas>>

\* the inter-shot timeout: next countdown, or captureStrip's completion
\* callback, which hands state.capturedFrames to compositeStrip
AppDelayFire(t) ==
    /\ DelayFire(t)
    /\ IF calls[t.call].currentShot >= calls[t.call].total
       THEN composites' = composites \cup {Composite(t.call, selectedShots, capturedFrames)}
       ELSE composites' = composites
    /\ UNCHANGED <<currentScreen, selectedShots, capturedFrames, capturedCanvas>>

\* the frame artwork has loaded (or failed): compositeWithCustomFrame draws the
\* frames it holds and resolves; captureStrip shows the result
CompositeResolve(k) ==
    /\ k \in composites
    /\ composites' = composites \ {k}
    /\ capturedCanvas' = <<k.frames>>
    /\ currentScreen' = "review"
    /\ UNCHANGED <<selectedShots, capturedFrames, capVars>>

NextApp ==
    \/ BtnStart /\ UNCHANGED <<edVars, camVars, stVars, cropCall, compVars, metaVars, errorModal, uploadCall, confirmDialog>>
    \/ BtnBackLanding /\ UNCHANGED <<edVars, camVars, stVars, cropCall, compVars, metaVars, errorModal, uploadCall, confirmDialog>>
    \/ \E n \in AllowedShots : SelectTemplate(n) /\ UNCHANGED <<edVars, camVars, stVars, cropCall, compVars, metaVars, errorModal, uploadCall, confirmDialog>>
    \/ \E sec \in 0..MaxCountdown : sec # countdownSeconds /\ selectTimer(sec) /\ UNCHANGED <<edVars, camVars, stVars, cropCall, compVars, metaVars, errorModal, uploadCall, confirmDialog>>
    \/ capturePhoto /\ UNCHANGED <<edVars, camVars, stVars, cropCall, compVars, metaVars, errorModal, uploadCall, confirmDialog>>
    \/ BtnBackTemplates /\ UNCHANGED <<edVars, camVars, stVars, cropCall, compVars, metaVars, errorModal, uploadCall, confirmDialog>>
    \/ retakePhoto /\ UNCHANGED <<edVars, camVars, stVars, cropCall, compVars, metaVars, errorModal, uploadCall, confirmDialog>>
    \/ BtnNewPhoto /\ UNCHANGED <<edVars, camVars, stVars, cropCall, compVars, metaVars, errorModal, uploadCall, confirmDialog>>
    \/ \E t \in timers : AppIntervalTick(t) /\ UNCHANGED <<edVars, camVars, stVars, cropCall, compVars, metaVars, errorModal, uploadCall, confirmDialog>>
    \/ \E t \in timers : AppFlashFire(t) /\ UNCHANGED <<edVars, camVars, stVars, cropCall, compVars, metaVars, errorModal, uploadCall, confirmDialog>>
    \/ \E t \in timers : AppDelayFire(t) /\ UNCHANGED <<edVars, camVars, stVars, cropCall, compVars, metaVars, errorModal, uploadCall, confirmDialog>>
    \/ \E k \in composites : CompositeResolve(k) /\ UNCHANGED <<edVars, camVars, stVars, cropCall, compVars, metaVars, errorModal, uploadCall, confirmDialog>>

(***************************************************************************)
(* Camera                                                                  *)
(***************************************************************************)
MaxRequests == 3
DeviceIds == {1, 2}

\* A getUserMedia call that has not settled yet.  `by` is the caller: the
\* permission probe of getAvailableCameras or startCamera; deviceId 0 = null.
GumRequest(n, by, deviceId) == [req |-> n, by |-> by, deviceId |-> deviceId]

InitCamera ==
    /\ currentStream = 0
    /\ srcObject = 0
    /\ liveStreams = {}
    /\ pendingGum = {}
    /\ gumCount = 0
    /\ cameraStopped = FALSE

\* await navigator.mediaDevices.getUserMedia({ video: true })
getAvailableCameras ==
    /\ gumCount < MaxRequests
    /\ gumCount' = gumCount + 1
    /\ pendingGum' = pendingGum \cup {GumRequest(gumCount + 1, "probe", 0)}
    /\ UNCHANGED <<currentStream, srcObject, liveStreams, cameraStopped>>

\* currentStream.getTracks().forEach(track => track.stop())
StopTracks(live, stream) == IF stream # 0 THEN live \ {stream} ELSE live

stopCamera ==
    /\ liveStreams' = StopTracks(liveStreams, currentStream)
    /\ currentStream' = 0
    /\ srcObject' = 0
    /\ cameraStopped' = TRUE
    /\ UNCHANGED <<pendingGum, gumCount>>

\* stopCamera(), then the call suspends at await getUserMedia(constraints)
startCamera(deviceId) ==
    /\ gumCount < MaxRequests
    /\ liveStreams' = StopTracks(liveStreams, currentStream)
    /\ currentStream' = 0
    /\ srcObject' = 0
    /\ cameraStopped' = FALSE
    /\ gumCount' = gumCount + 1
    /\ pendingGum' = pendingGum \cup {GumRequest(gumCount + 1, "start", deviceId)}

switchCamera(deviceId) == startCamera(deviceId)

\* getUserMedia fulfils: the browser has opened the device and hands over a
\* stream with live tracks; startCamera resumes and stores it.
GumResolve(p) ==
    /\ p \in pendingGum
    /\ pendingGum' = pendingGum \ {p}
    /\ liveStreams' = liveStreams \cup {p.req}
    /\ IF p.by = "start"
       THEN currentStream' = p.req /\ srcObject' = p.req
       ELSE UNCHANGED <<currentStream, srcObject>>
    /\ UNCHANGED <<gumCount, cameraStopped>>

\* getUserMedia rejects (permission denied, device missing): the caller throws
GumReject(p) ==
    /\ p \in pendingGum
    /\ pendingGum' = pendingGum \ {p}
    /\ UNCHANGED <<currentStream, srcObject, liveStreams, gumCount, cameraStopped>>

NextCamera ==
    \/ getAvailableCameras /\ UNCHANGED <<edVars, capVars, appVars, stVars, cropCall, compVars, metaVars, errorModal, uploadCall, confirmDialog>>
    \/ startCamera(0) /\ UNCHANGED <<edVars, capVars, appVars, stVars, cropCall, compVars, metaVars, errorModal, uploadCall, confirmDialog>>
    \/ \E d \in DeviceIds : switchCamera(d) /\ UNCHANGED <<edVars, capVars, appVars, stVars, cropCall, compVars, metaVars, errorModal, uploadCall, confirmDialog>>
    \/ stopCamera /\ UNCHANGED <<edVars, capVars, appVars, stVars, cropCall, compVars, metaVars, errorModal, uploadCall, confirmDialog>>
    \/ \E p \in pendingGum : GumResolve(p) /\ UNCHANGED <<edVars, capVars, appVars, stVars, cropCall, compVars, metaVars, errorModal, uploadCall, confirmDialog>>
    \/ \E p \in pendingGum : GumReject(p) /\ UNCHANGED <<edVars, capVars, appVars, stVars, cropCall, compVars, metaVars, errorModal, uploadCall, confirmDialog>>

(***************************************************************************)
(* TemplateStorage and Templates                                           *)
(***************************************************************************)
MAX_TEMPLATES == 20
MAX_FILE_SIZE == 5 * 1024 * 1024

MaxNow == 1
MaxOps == 2

\* A template is a record whose domain is the set of properties the JS object
\* has; a data URL is held as its media type and its length in characters.
Has(t, f) == f \in DOMAIN t
Spread(a, b) == [f \in (DOMAIN a) \cup (DOMAIN b) |-> IF f \in DOMAIN b THEN b[f] ELSE a[f]]
Without(t, f) == [g \in (DOMAIN t) \ {f} |-> t[g]]
DataUrl(mime, length) == [mime |-> mime, length |-> length]
CustomId(ms) == "custom-" \o ToString(ms)

\* JS numbers: the integers and NaN; JsonNull is the null that JSON holds.
\* A comparison with NaN is false and a sum with NaN is NaN.
NaN == -2000000001
JsonNull == -2000000002
IsNumber(v) == v # JsonNull
JsLt(a, b) == a # NaN /\ b # NaN /\ a < b
JsAdd(a, b) == IF a = NaN \/ b = NaN THEN NaN ELSE a + b

SlotError(s, fw, fh) ==
    IF ~(Has(s, "x") /\ Has(s, "y") /\ Has(s, "width") /\ Has(s, "height"))
    THEN "slot-coordinates"
    ELSE IF ~(IsNumber(s.x) /\ IsNumber(s.y) /\ IsNumber(s.width) /\ IsNumber(s.height))
    THEN "slot-coordinates"
    ELSE IF JsLt(s.width, 50) \/ JsLt(s.height, 50) THEN "slot-small"
    ELSE IF JsLt(s.x, 0) \/ JsLt(s.y, 0) \/ JsLt(fw, JsAdd(s.x, s.width))
            \/ JsLt(fh, JsAdd(s.y, s.height))
    THEN "slot-bounds"
    ELSE "ok"

\* JSON.parse(JSON.stringify(template)): a NaN becomes null
Stringify(t) ==
    LET number(v) == IF v = NaN THEN JsonNull ELSE v
        slot(s) == [f \in DOMAIN s |-> number(s[f])]
    IN IF Has(t, "photoSlots")
       THEN Spread(t, [photoSlots |-> [i \in 1..Len(t.photoSlots) |->
                                          slot(t.photoSlots[i])]])
       ELSE t

\* the Error validateTemplate throws, "ok" when it returns true
validateTemplate(t) ==
    IF ~Has(t, "name") \/ t.name = "" THEN "name-required"
    ELSE IF Len(t.name) < 1 \/ Len(t.name) > 50 THEN "name-length"
    ELSE IF ~Has(t, "shots") \/ t.shots \notin AllowedShots THEN "shots"
    ELSE IF ~Has(t, "frameImageData") \/ t.frameImageData.length = 0 THEN "image-required"
    ELSE IF t.frameImageData.mime # "image/png" THEN "image-format"
    ELSE IF t.frameImageData.length * 100 > MAX_FILE_SIZE * 137 THEN "image-size"
    ELSE IF ~Has(t, "frameWidth") \/ ~Has(t, "frameHeight")
            \/ t.frameWidth = 0 \/ t.frameHeight = 0 THEN "dimensions-required"
    ELSE IF t.frameWidth < 500 \/ t.frameHeight < 500 THEN "dimensions-small"
    ELSE IF ~Has(t, "photoSlots") \/ Len(t.photoSlots) # t.shots THEN "slot-count"
    ELSE LET bad == {i \in 1..Len(t.photoSlots) :
                        SlotError(t.photoSlots[i], t.frameWidth, t.frameHeight) # "ok"}
         IN IF bad = {} THEN "ok"
            ELSE SlotError(t.photoSlots[CHOOSE i \in bad : \A j \in bad : i <= j],
                           t.frameWidth, t.frameHeight)

\* templates.findIndex(t => t.id === id), counted from 1; 0 = not found
findIndexMutFirst(ts, id) == IF Len(ts) = 0 THEN 0 ELSE 1
findIndex(ts, id) ==
    LET hits == {i \in 1..Len(ts) : Has(ts[i], "id") /\ ts[i].id = id}
    IN IF hits = {} THEN 0 ELSE CHOOSE i \in hits : \A j \in hits : i <= j

\* TemplateStorage.getById: <<template>>, or <<>> for null
getById(ts, id) == IF findIndex(ts, id) = 0 THEN <<>> ELSE <<ts[findIndex(ts, id)]>>

defaultTemplates ==
    << [id |-> "2-picture", name |-> "2 Photo Strip", shots |-> 2,
        frameWidth |-> 1080, frameHeight |-> 1920,
        photoSlots |-> <<Slot(130, 310, 830, 525), Slot(133, 970, 830, 525)>>,
        frameImage |-> "templates/frames/Merry Christmas 2.png", style |-> "custom-frame",
        isDefault |-> TRUE, isCustom |-> FALSE],
       [id |-> "3-picture", name |-> "3 Photo Strip", shots |-> 3,
        frameWidth |-> 1080, frameHeight |-> 1920,
        photoSlots |-> <<Slot(130, 230, 600, 380), Slot(380, 700, 605, 385),
                         Slot(225, 1175, 595, 380)>>,
        frameImage |-> "templates/frames/Merry Christmas 3.png", style |-> "custom-frame",
        isDefault |-> TRUE, isCustom |-> FALSE] >>

\* Templates.getById: the custom templates first, then the built-in ones
TemplatesGetById(ts, id) ==
    IF getById(ts, id) # <<>> THEN getById(ts, id) ELSE getById(defaultTemplates, id)

\* Templates.getAll: the built-in templates, then the custom ones
TemplatesGetAll(ts) == defaultTemplates \o ts

\* ---- inputs ----
TemplateA ==
    [name |-> "A", shots |-> 2, frameImageData |-> DataUrl("image/png", 100),
     frameWidth |-> 500, frameHeight |-> 600,
     photoSlots |-> <<Slot(0, 0, 50, 50), Slot(0, 50, 50, 50)>>, isCustom |-> TRUE]
TemplateB ==
    [name |-> "B", shots |-> 3, frameImageData |-> DataUrl("image/png", 7182745),
     frameWidth |-> 600, frameHeight |-> 500,
     photoSlots |-> <<Slot(0, 0, 50, 50), Slot(50, 0, 50, 50), Slot(550, 450, 50, 50)>>,
     isCustom |-> TRUE]
\* a template whose first slot has not-a-number coordinates
TemplateNaN ==
    Spread(TemplateA, [photoSlots |-> <<Slot(NaN, 0, NaN, 50), Slot(0, 50, 50, 50)>>])
WithId(t, id) == Spread(t, [id |-> id])

InvalidTemplates ==
    { Without(TemplateA, "name"),
      Spread(TemplateA, [name |-> ""]),
      Spread(TemplateA, [name |-> "123456789012345678901234567890123456789012345678901"]),
      Spread(TemplateA, [shots |-> 4]),
      Without(TemplateA, "frameImageData"),
      Spread(TemplateA, [frameImageData |-> DataUrl("image/jpeg", 100)]),
      Spread(TemplateA, [frameImageData |-> DataUrl("image/png", 7182746)]),
      Spread(TemplateA, [frameWidth |-> 0]),
      Spread(TemplateA, [frameWidth |-> 499]),
      Spread(TemplateA, [shots |-> 3]),
      Spread(TemplateA, [photoSlots |-> <<Slot(0, 0, 49, 50), Slot(0, 50, 50, 50)>>]),
      Spread(TemplateA, [photoSlots |-> <<Slot(0, 0, 50, 50), Slot(451, 50, 50, 50)>>]) }

GivenIds == {"x", "2-picture"}
\* templates as the editor hands them to save: isCustom set, id given or absent
SaveInputs ==
    {TemplateA, TemplateB, TemplateNaN}
        \cup {WithId(t, id) : t \in {TemplateA, TemplateB}, id \in GivenIds}
        \cup InvalidTemplates
\* update payloads: single changed properties, and the whole template under its id
UpdatePayloads(id) ==
    { [name |-> "C"], [name |-> ""], [shots |-> 3], [isDefault |-> TRUE],
      [createdAt |-> 12345], WithId(TemplateB, id),
      [photoSlots |-> <<Slot(0, NaN, 50, NaN), Slot(0, 50, 50, 50)>>] }

\* a template of an export file written by an earlier session
ExportedTemplate(i) ==
    Spread(TemplateA, [id |-> "custom-e" \o ToString(i), isDefault |-> FALSE,
                       createdAt |-> 0, updatedAt |-> 0])
\* the ids update, remove and select are called with: the given ones, the ids
\* save generates, and the id of the first template of an export file
TargetIds ==
    GivenIds \cup {CustomId(ms) : ms \in 0..MaxNow} \cup {ExportedTemplate(1).id}
ExportFile(n) == [i \in 1..n |-> ExportedTemplate(i)]
Json(parsed, list) == [parsed |-> parsed, list |-> list]
ImportInputs ==
    { Json("error", <<>>), Json("object", <<>>), Json("array", <<>>),
      Json("array", <<TemplateA>>),
      Json("array", <<Spread(WithId(TemplateA, "x"), [isDefault |-> TRUE, isCustom |-> FALSE])>>),
      Json("array", <<WithId(TemplateA, "x"), WithId(TemplateB, "x")>>),
      Json("array", <<TemplateA, Spread(TemplateA, [shots |-> 4])>>),
      Json("array", <<Spread(TemplateA, [photoSlots |->
                          <<Slot(JsonNull, 0, 50, 50), Slot(0, 50, 50, 50)>>])>>),
      Json("array", ExportFile(MAX_TEMPLATES - 1)),
      Json("array", ExportFile(MAX_TEMPLATES)) }
\* what localStorage.setItem does: returns, or throws
StorageOutcomes == {"ok", "QuotaExceededError", "SecurityError"}

NoArg == [none |-> TRUE]
Result(n, op, via, id, arg, kind, ret) ==
    [n |-> n, op |-> op, via |-> via, id |-> id, arg |-> arg, kind |-> kind, ret |-> ret]

InitStore ==
    /\ store = <<>>
    /\ now = 0
    /\ selectedTemplateId = ""
    /\ result = Result(0, "none", "store", "", NoArg, "ok", "")

\* the Error thrown when localStorage.setItem throws in save / update
WriteErrorMutAsCapacity(op, outcome) == "capacity"
WriteError(op, outcome) ==
    IF outcome = "QuotaExceededError" THEN "quota"
    ELSE IF op = "save" THEN "save-failed" ELSE "update-failed"

\* existingTemplates.length + importedTemplates.length > MAX_TEMPLATES
ExceedsCapacityMutNever(existing, imported) == FALSE
ExceedsCapacity(existing, imported) == Len(existing) + Len(imported) > MAX_TEMPLATES

AtCapacityMutOffByOne(templates) == Len(templates) > MAX_TEMPLATES
AtCapacity(templates) == Len(templates) >= MAX_TEMPLATES

\* TemplateStorage.save (its three Date.now() reads fall in one millisecond)
save(template, outcome) ==
    /\ result.n < MaxOps
    /\ LET v == validateTemplate(template)
           newTemplate ==
               Spread(template,
                      [id |-> IF Has(template, "id") /\ template.id # "" THEN template.id
                              ELSE CustomId(now),
                       isCustom |-> TRUE, isDefault |-> FALSE,
                       createdAt |-> now, updatedAt |-> now])
       IN IF v # "ok"
          THEN /\ result' = Result(result.n + 1, "save", "store", "", template, v, "")
               /\ UNCHANGED <<store, now>>
          ELSE IF AtCapacity(store)
          THEN /\ result' = Result(result.n + 1, "save", "store", "", template, "capacity", "")
               /\ UNCHANGED <<store, now>>
          ELSE /\ now' = now
               /\ IF outcome = "ok"
                  THEN /\ store' = Append(store, Stringify(newTemplate))
                       /\ result' = Result(result.n + 1, "save", "store", "", template,
                                           "ok", newTemplate.id)
                  ELSE /\ store' = store
                       /\ result' = Result(result.n + 1, "save", "store", "", template,
                                           WriteError("save", outcome), "")
    /\ UNCHANGED selectedTemplateId

\* TemplateStorage.update, called directly (via = "store") or by the registry
update(via, id, updates, outcome) ==
    LET index == findIndex(store, id)
        old == store[index]
        merged == Spread(Spread(old, updates),
                         [id |-> id, isCustom |-> TRUE, updatedAt |-> now])
        \* createdAt: templates[index].createdAt, undefined when the stored
        \* template has none (JSON.stringify then drops the property)
        updatedTemplate ==
            IF Has(old, "createdAt") THEN Spread(merged, [createdAt |-> old.createdAt])
            ELSE IF Has(merged, "createdAt") THEN Without(merged, "createdAt")
            ELSE merged
    IN IF index = 0
       THEN /\ result' = Result(result.n + 1, "update", via, id, updates, "not-found", "")
            /\ store' = store
       ELSE IF validateTemplate(updatedTemplate) # "ok"
       THEN /\ result' = Result(result.n + 1, "update", via, id, updates,
                                validateTemplate(updatedTemplate), "")
            /\ store' = store
       ELSE IF outcome = "ok"
       THEN /\ store' = [store EXCEPT ![index] = Stringify(updatedTemplate)]
            /\ result' = Result(result.n + 1, "update", via, id, updates, "ok", id)
       ELSE /\ store' = store
            /\ result' = Result(result.n + 1, "update", via, id, updates,
                                WriteError("update", outcome), "")

\* TemplateStorage.remove, called directly or by the registry
remove(via, id, outcome) ==
    LET index == findIndex(store, id)
    IN IF index = 0
       THEN /\ result' = Result(result.n + 1, "remove", via, id, NoArg, "not-found", "")
            /\ store' = store
       ELSE IF outcome = "ok"
       THEN /\ store' = [i \in 1..(Len(store) - 1) |->
                            IF i < index THEN store[i] ELSE store[i + 1]]
            /\ result' = Result(result.n + 1, "remove", via, id, NoArg, "ok", "")
       ELSE /\ store' = store
            /\ result' = Result(result.n + 1, "remove", via, id, NoArg, "delete-failed", "")

\* TemplateStorage.importTemplates: every failure is rethrown as an import error
importTemplates(jsonData, outcome) ==
    /\ result.n < MaxOps
    /\ LET importedTemplates == jsonData.list
           accepted ==
               /\ jsonData.parsed = "array"
               /\ \A i \in 1..Len(importedTemplates) :
                      validateTemplate(importedTemplates[i]) = "ok"
               /\ ~ExceedsCapacity(store, importedTemplates)
               /\ outcome = "ok"
       IN IF accepted
          THEN /\ store' = store \o importedTemplates
               /\ result' = Result(result.n + 1, "import", "store", "", jsonData, "ok",
                                   ToString(Len(importedTemplates)))
          ELSE /\ store' = store
               /\ result' = Result(result.n + 1, "import", "store", "", jsonData,
                                   "import-failed", "")
    /\ UNCHANGED <<now, selectedTemplateId>>

StoreUpdate(id, updates, outcome) ==
    /\ result.n < MaxOps
    /\ update("store", id, updates, outcome)
    /\ UNCHANGED <<now, selectedTemplateId>>

StoreRemove(id, outcome) ==
    /\ result.n < MaxOps
    /\ remove("store", id, outcome)
    /\ UNCHANGED <<now, selectedTemplateId>>

\* Templates.saveTemplate
saveTemplate(template, outcome) == save(template, outcome)

\* Templates.updateTemplate
updateTemplate(id, updates, outcome) ==
    /\ result.n < MaxOps
    /\ LET template == TemplatesGetById(store, id)
       IN IF template = <<>>
          THEN /\ result' = Result(result.n + 1, "update", "registry", id, updates,
                                   "not-found", "")
               /\ store' = store
          ELSE IF Has(template[1], "isDefault") /\ template[1].isDefault
          THEN /\ result' = Result(result.n + 1, "update", "registry", id, updates,
                                   "default", "")
               /\ store' = store
          ELSE update("registry", id, updates, outcome)
    /\ UNCHANGED <<now, selectedTemplateId>>

\* Templates.deleteTemplate
deleteTemplate(id, outcome) ==
    /\ result.n < MaxOps
    /\ LET template == TemplatesGetById(store, id)
       IN IF template = <<>>
          THEN /\ result' = Result(result.n + 1, "remove", "registry", id, NoArg,
                                   "not-found", "")
               /\ UNCHANGED <<store, selectedTemplateId>>
          ELSE IF Has(template[1], "isDefault") /\ template[1].isDefault
          THEN /\ result' = Result(result.n + 1, "remove", "registry", id, NoArg,
                                   "default", "")
               /\ UNCHANGED <<store, selectedTemplateId>>
          ELSE /\ remove("registry", id, outcome)
               /\ selectedTemplateId' =
                      IF result'.kind = "ok" /\ selectedTemplateId = id
                      THEN "" ELSE selectedTemplateId
    /\ UNCHANGED now

\* Templates.select
select(id) ==
    /\ selectedTemplateId' = id
    /\ UNCHANGED <<store, now, result>>

\* a millisecond passes
Tick ==
    /\ now < MaxNow
    /\ now' = now + 1
    /\ UNCHANGED <<store, selectedTemplateId, result>>

NextStore ==
    \/ \E t \in SaveInputs, o \in StorageOutcomes :
           save(t, o) /\ UNCHANGED <<edVars, capVars, appVars, camVars, cropCall, compVars, metaVars, errorModal, uploadCall, confirmDialog>>
    \/ \E id \in TargetIds, o \in StorageOutcomes : \E u \in UpdatePayloads(id) :
           StoreUpdate(id, u, o) /\ UNCHANGED <<edVars, capVars, appVars, camVars, cropCall, compVars, metaVars, errorModal, uploadCall, confirmDialog>>
    \/ \E id \in TargetIds, o \in StorageOutcomes :
           StoreRemove(id, o) /\ UNCHANGED <<edVars, capVars, appVars, camVars, cropCall, compVars, metaVars, errorModal, uploadCall, confirmDialog>>
    \/ \E j \in ImportInputs, o \in StorageOutcomes :
           importTemplates(j, o) /\ UNCHANGED <<edVars, capVars, appVars, camVars, cropCall, compVars, metaVars, errorModal, uploadCall, confirmDialog>>
    \/ \E t \in SaveInputs, o \in StorageOutcomes :
           saveTemplate(t, o) /\ UNCHANGED <<edVars, capVars, appVars, camVars, cropCall, compVars, metaVars, errorModal, uploadCall, confirmDialog>>
    \/ \E id \in TargetIds, o \in StorageOutcomes : \E u \in UpdatePayloads(id) :
           updateTemplate(id, u, o) /\ UNCHANGED <<edVars, capVars, appVars, camVars, cropCall, compVars, metaVars, errorModal, uploadCall, confirmDialog>>
    \/ \E id \in TargetIds, o \in StorageOutcomes :
           deleteTemplate(id, o) /\ UNCHANGED <<edVars, capVars, appVars, camVars, cropCall, compVars, metaVars, errorModal, uploadCall, confirmDialog>>
    \/ \E id \in TargetIds :
           select(id) /\ UNCHANGED <<edVars, capVars, appVars, camVars, cropCall, compVars, metaVars, errorModal, uploadCall, confirmDialog>>
    \/ Tick /\ UNCHANGED <<edVars, capVars, appVars, camVars, cropCall, compVars, metaVars, errorModal, uploadCall, confirmDialog>>

(***************************************************************************)
(* CropCalculator, and the crop computations of the compositor and overlay *)
(***************************************************************************)
MaxDim == 4

\* JS numbers of the crop arithmetic, held exactly as fractions n/d, d > 0
Q(n, d) == [n |-> n, d |-> d]
QMul(a, b) == Q(a.n * b.n, a.d * b.d)
QDiv(a, b) == Q(a.n * b.d, a.d * b.n)
QSub(a, b) == Q(a.n * b.d - b.n * a.d, a.d * b.d)
QGt(a, b) == a.n * b.d > b.n * a.d
QEq(a, b) == a.n * b.d = b.n * a.d

calculateCropRegionMutStretch(slot, sourceWidth, sourceHeight) ==
    [sx |-> Q(0, 1), sy |-> Q(0, 1), sw |-> Q(sourceWidth, 1), sh |-> Q(sourceHeight, 1)]
calculateCropRegion(slot, sourceWidth, sourceHeight) ==
    LET slotAspect == QDiv(Q(slot.width, 1), Q(slot.height, 1))
        sourceAspect == QDiv(Q(sourceWidth, 1), Q(sourceHeight, 1))
    IN IF QGt(sourceAspect, slotAspect)
       THEN LET sh == Q(sourceHeight, 1)
                sw == QMul(sh, slotAspect)
            IN [sx |-> QDiv(QSub(Q(sourceWidth, 1), sw), Q(2, 1)), sy |-> Q(0, 1),
                sw |-> sw, sh |-> sh]
       ELSE LET sw == Q(sourceWidth, 1)
                sh == QDiv(sw, slotAspect)
            IN [sx |-> Q(0, 1), sy |-> QDiv(QSub(Q(sourceHeight, 1), sh), Q(2, 1)),
                sw |-> sw, sh |-> sh]

calculatePreviewOverlayMutTopLeft(slot, containerWidth, containerHeight) ==
    [x |-> Q(0, 1), y |-> Q(0, 1),
     width |-> calculateCropRegion(slot, containerWidth, containerHeight).sw,
     height |-> calculateCropRegion(slot, containerWidth, containerHeight).sh]
calculatePreviewOverlay(slot, containerWidth, containerHeight) ==
    LET slotAspect == QDiv(Q(slot.width, 1), Q(slot.height, 1))
        containerAspect == QDiv(Q(containerWidth, 1), Q(containerHeight, 1))
    IN IF QGt(containerAspect, slotAspect)
       THEN LET cropHeight == Q(containerHeight, 1)
                cropWidth == QMul(cropHeight, slotAspect)
            IN [x |-> QDiv(QSub(Q(containerWidth, 1), cropWidth), Q(2, 1)), y |-> Q(0, 1),
                width |-> cropWidth, height |-> cropHeight]
       ELSE LET cropWidth == Q(containerWidth, 1)
                cropHeight == QDiv(cropWidth, slotAspect)
            IN [x |-> Q(0, 1), y |-> QDiv(QSub(Q(containerHeight, 1), cropHeight), Q(2, 1)),
                width |-> cropWidth, height |-> cropHeight]

\* CanvasCompositor.drawImageToArea: the source rectangle handed to drawImage
drawImageToAreaMutTopLeft(imgData, photoArea) ==
    [sx |-> Q(0, 1), sy |-> Q(0, 1), sw |-> Q(imgData.width, 1), sh |-> Q(imgData.height, 1)]
drawImageToArea(imgData, photoArea) ==
    LET sourceWidth == imgData.width
        sourceHeight == imgData.height
        sourceAspect == QDiv(Q(sourceWidth, 1), Q(sourceHeight, 1))
        areaAspect == QDiv(Q(photoArea.width, 1), Q(photoArea.height, 1))
    IN IF QGt(sourceAspect, areaAspect)
       THEN LET sh == Q(sourceHeight, 1)
                sw == QMul(sh, areaAspect)
            IN [sx |-> QDiv(QSub(Q(sourceWidth, 1), sw), Q(2, 1)), sy |-> Q(0, 1),
                sw |-> sw, sh |-> sh]
       ELSE LET sw == Q(sourceWidth, 1)
                sh == QDiv(sw, areaAspect)
            IN [sx |-> Q(0, 1), sy |-> QDiv(QSub(Q(sourceHeight, 1), sh), Q(2, 1)),
                sw |-> sw, sh |-> sh]

\* CanvasCompositor.drawPhotoToArea: the source rectangle handed to drawImage
drawPhotoToArea(videoElement, photoArea) ==
    LET videoAspect == QDiv(Q(videoElement.videoWidth, 1), Q(videoElement.videoHeight, 1))
        areaAspect == QDiv(Q(photoArea.width, 1), Q(photoArea.height, 1))
    IN IF QGt(videoAspect, areaAspect)
       THEN LET sh == Q(videoElement.videoHeight, 1)
                sw == QMul(sh, areaAspect)
            IN [sx |-> QDiv(QSub(Q(videoElement.videoWidth, 1), sw), Q(2, 1)),
                sy |-> Q(0, 1), sw |-> sw, sh |-> sh]
       ELSE LET sw == Q(videoElement.videoWidth, 1)
                sh == QDiv(sw, areaAspect)
            IN [sx |-> Q(0, 1),
                sy |-> QDiv(QSub(Q(videoElement.videoHeight, 1), sh), Q(2, 1)),
                sw |-> sw, sh |-> sh]

\* App.updateCurrentShotOverlay: the crop box written into the overlay
updateCurrentShotOverlay(slot, containerWidth, containerHeight) ==
    LET slotAspect == QDiv(Q(slot.width, 1), Q(slot.height, 1))
        containerAspect == QDiv(Q(containerWidth, 1), Q(containerHeight, 1))
    IN IF QGt(containerAspect, slotAspect)
       THEN LET cropHeight == Q(containerHeight, 1)
                cropWidth == QMul(cropHeight, slotAspect)
            IN [x |-> QDiv(QSub(Q(containerWidth, 1), cropWidth), Q(2, 1)), y |-> Q(0, 1),
                width |-> cropWidth, height |-> cropHeight]
       ELSE LET cropWidth == Q(containerWidth, 1)
                cropHeight == QDiv(cropWidth, slotAspect)
            IN [x |-> Q(0, 1), y |-> QDiv(QSub(Q(containerHeight, 1), cropHeight), Q(2, 1)),
                width |-> cropWidth, height |-> cropHeight]

\* inputs: a slot and a source / container size, all dimensions positive
CropInput(w, h, W, H) == [slot |-> Slot(0, 0, w, h), width |-> W, height |-> H]
CropInputs == {CropInput(w, h, W, H) : w \in 1..MaxDim, h \in 1..MaxDim,
                                       W \in 1..MaxDim, H \in 1..MaxDim}
DefaultCropInput == CropInput(1, 1, 1, 1)
CropCall(fn, in, box) == [fn |-> fn, in |-> in, box |-> box]

InitCrop(inputs) == cropCall \in {CropCall("none", in, <<>>) : in \in inputs}

CallCropRegion ==
    cropCall' = CropCall("calculateCropRegion", cropCall.in,
                         calculateCropRegion(cropCall.in.slot, cropCall.in.width,
                                             cropCall.in.height))
CallPreviewOverlay ==
    cropCall' = CropCall("calculatePreviewOverlay", cropCall.in,
                         calculatePreviewOverlay(cropCall.in.slot, cropCall.in.width,
                                                 cropCall.in.height))
CallDrawImageToArea ==
    cropCall' = CropCall("drawImageToArea", cropCall.in,
                         drawImageToArea([width |-> cropCall.in.width,
                                          height |-> cropCall.in.height],
                                         cropCall.in.slot))
CallDrawPhotoToArea ==
    cropCall' = CropCall("drawPhotoToArea", cropCall.in,
                         drawPhotoToArea([videoWidth |-> cropCall.in.width,
                                          videoHeight |-> cropCall.in.height],
                                         cropCall.in.slot))
CallCurrentShotOverlay ==
    cropCall' = CropCall("updateCurrentShotOverlay", cropCall.in,
                         updateCurrentShotOverlay(cropCall.in.slot, cropCall.in.width,
                                                  cropCall.in.height))

NextCrop ==
    \/ CallCropRegion /\ UNCHANGED <<edVars, capVars, appVars, camVars, stVars, compVars, metaVars, errorModal, uploadCall, confirmDialog>>
    \/ CallPreviewOverlay /\ UNCHANGED <<edVars, capVars, appVars, camVars, stVars, compVars, metaVars, errorModal, uploadCall, confirmDialog>>
    \/ CallDrawImageToArea /\ UNCHANGED <<edVars, capVars, appVars, camVars, stVars, compVars, metaVars, errorModal, uploadCall, confirmDialog>>
    \/ CallDrawPhotoToArea /\ UNCHANGED <<edVars, capVars, appVars, camVars, stVars, compVars, metaVars, errorModal, uploadCall, confirmDialog>>
    \/ CallCurrentShotOverlay /\ UNCHANGED <<edVars, capVars, appVars, camVars, stVars, compVars, metaVars, errorModal, uploadCall, confirmDialog>>

(***************************************************************************)
(* CanvasCompositor                                                        *)
(***************************************************************************)
OUTPUT_WIDTH == 1200
OUTPUT_HEIGHT == 1600
STRIP_WIDTH == 600
STRIP_HEIGHT == 1800
MaxFrames == 2
MaxComposites == 1

\* the video element: it has its stream's dimensions, or none without a stream
VideoSize(stream) ==
    IF stream # 0 THEN [width |-> 1920, height |-> 1080] ELSE [width |-> 0, height |-> 0]
\* the natural sizes of the frame artwork
ArtworkSizes == {[width |-> 1080, height |-> 1920], [width |-> 300, height |-> 200]}

\* the templates handed to compositeStrip: the built-in ones, a template as
\* the editor saves it, a frame-image template without frame dimensions, and
\* a template drawn by the program
CompositorTemplates ==
    { defaultTemplates[1], defaultTemplates[2],
      Spread(TemplateA, [style |-> "custom-frame", frameImage |-> "data:image/png"]),
      [shots |-> 2, style |-> "custom-frame", frameImage |-> "frame.png",
       photoSlots |-> <<Slot(0, 0, 100, 100), Slot(0, 100, 100, 100)>>],
      Spread(TemplateA, [style |-> "custom-frame", frameImage |-> "data:image/png",
                         design |-> "hearts"]),
      [shots |-> 3, style |-> "filmstrip", borderWidth |-> 40, photoGap |-> 10] }

InitCompositor ==
    /\ shotFrames = <<>>
    /\ promises = <<>>

\* CanvasCompositor.captureFrame(videoElement): a canvas of the video's size
captureFrame ==
    /\ Len(shotFrames) < MaxFrames
    /\ shotFrames' = Append(shotFrames, VideoSize(srcObject))
    /\ UNCHANGED promises

\* state.capturedFrames = []
ClearFrames ==
    /\ shotFrames # <<>>
    /\ shotFrames' = <<>>
    /\ UNCHANGED promises

calculateStripPhotoAreas(template, shots, canvasWidth, canvasHeight) ==
    LET padding == IF Has(template, "borderWidth") /\ template.borderWidth # 0
                   THEN template.borderWidth ELSE 25
        gap == IF Has(template, "photoGap") /\ template.photoGap # 0
               THEN template.photoGap ELSE 12
        sidePadding == IF Has(template, "style") /\ template.style = "filmstrip"
                       THEN padding + 25 ELSE padding
        photoWidth == canvasWidth - (sidePadding * 2)
        totalGapHeight == gap * (shots - 1)
        availableHeight == canvasHeight - (padding * 2) - totalGapHeight
        photoHeight == Q(availableHeight, shots)
    IN [i \in 1..shots |->
           [x |-> Q(sidePadding, 1),
            y |-> Q(padding * shots + (i - 1) * (availableHeight + gap * shots), shots),
            width |-> Q(photoWidth, 1),
            height |-> photoHeight]]

\* ctx.drawImage throws InvalidStateError for a source canvas without pixels:
\* the forEach over the frames stops at the first empty frame it would draw
DrawThrows(frames, areas) ==
    \E i \in 1..Min(Len(frames), Len(areas)) : frames[i].width = 0 \/ frames[i].height = 0
\* the drawImageToArea calls of the forEach: frame index and target area
Draws(frames, areas, isMirrored, canvasWidth) ==
    [i \in 1..Min(Len(frames), Len(areas)) |->
        [frame |-> i, area |-> areas[i], flipped |-> FALSE]]
\* the source rectangles of those calls, for slots given in whole pixels
Crops(frames, slots) ==
    [i \in 1..Min(Len(frames), Len(slots)) |-> drawImageToArea(frames[i], slots[i])]

\* one drawing call on the output canvas
Layer(op, arg) == [op |-> op, arg |-> arg]
\* the drawImageToArea calls as layers, in the order forEach makes them
PhotoLayers(frames, areas) ==
    [i \in 1..Min(Len(frames), Len(areas)) |-> Layer("photo", i - 1)]
\* template.design && template.design !== 'none'
HasDesign(template) == Has(template, "design") /\ template.design \notin {"", "none"}
\* drawStripFrameOverlay: border elements, then the design decorations
StripFrameOverlay(template) ==
    <<Layer("overlay", 0)>> \o
    (IF HasDesign(template) THEN <<Layer("decorations", 0)>> ELSE <<>>)
\* the drawing calls of the three bodies that fill a strip canvas
ProgramLayers(template, frames, areas) ==
    <<Layer("fillRect", 0), Layer("frameBackground", 0)>> \o PhotoLayers(frames, areas)
        \o StripFrameOverlay(template)
OnloadLayers(template, frames, areas) ==
    <<Layer("fillRect", 0)>> \o PhotoLayers(frames, areas) \o <<Layer("artwork", 0)>>
OnerrorLayers(template, frames, areas) ==
    <<Layer("fillRect", 0)>> \o PhotoLayers(frames, areas)

Canvas(width, height, background, draws, artwork, via, layers, crops) ==
    [width |-> width, height |-> height, background |-> background, draws |-> draws,
     artwork |-> artwork, via |-> via, layers |-> layers, crops |-> crops]
Promise(template, frames, isMirrored, state, canvas) ==
    [template |-> template, frames |-> frames, isMirrored |-> isMirrored,
     state |-> state, canvas |-> canvas]

\* canvas.width = template.frameWidth || frameImg.width, and the height
CanvasSizeMutNatural(template, frameImg) == frameImg
CanvasSize(template, frameImg) ==
    [width |-> IF Has(template, "frameWidth") /\ template.frameWidth # 0
               THEN template.frameWidth ELSE frameImg.width,
     height |-> IF Has(template, "frameHeight") /\ template.frameHeight # 0
                THEN template.frameHeight ELSE frameImg.height]

\* CanvasCompositor.compositeStrip(capturedImages, template, isMirrored)
compositeStrip(template, isMirrored) ==
    /\ Len(promises) < MaxComposites
    /\ IF template.style = "custom-frame" /\ Has(template, "frameImage")
       THEN \* compositeWithCustomFrame: the promise waits for the artwork
            promises' = Append(promises, Promise(template, shotFrames, isMirrored,
                                                 "loading", <<>>))
       ELSE LET shots == IF Has(template, "shots") /\ template.shots # 0
                         THEN template.shots ELSE Len(shotFrames)
                photoAreas == calculateStripPhotoAreas(template, shots,
                                                       STRIP_WIDTH, STRIP_HEIGHT)
            IN IF DrawThrows(shotFrames, photoAreas)
               THEN promises' = Append(promises,
                                       Promise(template, shotFrames, isMirrored,
                                               "rejected", <<>>))
               ELSE promises' = Append(promises,
                        Promise(template, shotFrames, isMirrored, "resolved",
                                <<Canvas(STRIP_WIDTH, STRIP_HEIGHT, "#000000",
                                         Draws(shotFrames, photoAreas, isMirrored,
                                               STRIP_WIDTH),
                                         FALSE, "program",
                                         ProgramLayers(template, shotFrames, photoAreas),
                                         <<>>)>>))
    /\ UNCHANGED shotFrames

\* single-photo templates as the builder generates them
SingleTemplates ==
    { [shots |-> 1, style |-> "solid", borderWidth |-> 35],
      [shots |-> 1, style |-> "polaroid", borderWidth |-> 35, borderBottom |-> 80],
      [shots |-> 1, style |-> "filmstrip", borderWidth |-> 35] }

\* calculatePhotoArea(template)
calculatePhotoArea(template) ==
    LET padding == IF Has(template, "borderWidth") /\ template.borderWidth # 0
                   THEN template.borderWidth ELSE 40
        bottomPadding == IF Has(template, "borderBottom") /\ template.borderBottom # 0
                         THEN template.borderBottom ELSE padding
        filmstrip == IF template.style = "filmstrip" THEN padding + 30 ELSE padding
        sidePadding == IF template.style = "triple" /\ Has(template, "outerBorderWidth")
                       THEN filmstrip + template.outerBorderWidth ELSE filmstrip
    IN  [x |-> sidePadding, y |-> padding,
         width |-> OUTPUT_WIDTH - (sidePadding * 2),
         height |-> OUTPUT_HEIGHT - padding - bottomPadding]

\* drawPhotoToArea: with isMirrored the context is flipped about the vertical
\* line x = canvasWidth / 2 and the photo is drawn at dx; `area` is where the
\* photo lands on the canvas
PhotoDraw(photoArea, isMirrored, canvasWidth) ==
    LET dx == IF isMirrored THEN canvasWidth - photoArea.x - photoArea.width
              ELSE photoArea.x
    IN  [frame |-> 1,
         area |-> [photoArea EXCEPT !.x = IF isMirrored
                                          THEN canvasWidth - (dx + photoArea.width)
                                          ELSE dx],
         flipped |-> isMirrored]

\* CanvasCompositor.composite(videoElement, template, isMirrored)
composite(template, isMirrored) ==
    /\ Len(promises) < MaxComposites
    /\ promises' = Append(promises,
           Promise(template, <<VideoSize(srcObject)>>, isMirrored, "resolved",
                   <<Canvas(OUTPUT_WIDTH, OUTPUT_HEIGHT, "#000000",
                            <<PhotoDraw(calculatePhotoArea(template), isMirrored,
                                        OUTPUT_WIDTH)>>,
                            FALSE, "single", <<>>, <<>>)>>))
    /\ UNCHANGED shotFrames

\* frameImg.onload
ArtworkLoad(k, frameImg) ==
    /\ k \in 1..Len(promises)
    /\ promises[k].state = "loading"
    /\ LET template == promises[k].template
           size == CanvasSize(template, frameImg)
           slots == IF Has(template, "photoSlots") THEN template.photoSlots ELSE <<>>
       IN IF DrawThrows(promises[k].frames, slots)
          THEN \* the handler dies with the exception: resolve is never called
               promises' = [promises EXCEPT ![k].state = "abandoned"]
          ELSE promises' = [promises EXCEPT
                   ![k].state = "resolved",
                   ![k].canvas = <<Canvas(size.width, size.height, "#ffffff",
                                          Draws(promises[k].frames, slots,
                                                promises[k].isMirrored, size.width),
                                          TRUE, "onload",
                                          OnloadLayers(template, promises[k].frames, slots),
                                          Crops(promises[k].frames, slots))>>]
    /\ UNCHANGED shotFrames

\* frameImg.onerror
ArtworkError(k) ==
    /\ k \in 1..Len(promises)
    /\ promises[k].state = "loading"
    /\ LET template == promises[k].template
           shots == IF Has(template, "shots") /\ template.shots # 0
                    THEN template.shots ELSE Len(promises[k].frames)
           photoAreas == calculateStripPhotoAreas(template, shots, STRIP_WIDTH, STRIP_HEIGHT)
       IN IF DrawThrows(promises[k].frames, photoAreas)
          THEN promises' = [promises EXCEPT ![k].state = "abandoned"]
          ELSE promises' = [promises EXCEPT
                   ![k].state = "resolved",
                   ![k].canvas = <<Canvas(STRIP_WIDTH, STRIP_HEIGHT, "#ffffff",
                                          Draws(promises[k].frames, photoAreas,
                                                promises[k].isMirrored, STRIP_WIDTH),
                                          FALSE, "onerror",
                                          OnerrorLayers(template, promises[k].frames,
                                                        photoAreas),
                                          <<>>)>>]
    /\ UNCHANGED shotFrames

\* the browser settles the load of frameImg.src with one of the two events
ArtworkSettles(k) ==
    \/ \E frameImg \in ArtworkSizes : ArtworkLoad(k, frameImg)
    \/ ArtworkError(k)

NextCompositor ==
    \/ startCamera(0) /\ UNCHANGED <<edVars, capVars, appVars, stVars, cropCall, compVars, metaVars, errorModal, uploadCall, confirmDialog>>
    \/ \E p \in pendingGum : GumResolve(p) /\ UNCHANGED <<edVars, capVars, appVars, stVars, cropCall, compVars, metaVars, errorModal, uploadCall, confirmDialog>>
    \/ stopCamera /\ UNCHANGED <<edVars, capVars, appVars, stVars, cropCall, compVars, metaVars, errorModal, uploadCall, confirmDialog>>
    \/ captureFrame /\ UNCHANGED <<edVars, capVars, appVars, camVars, stVars, cropCall, metaVars, errorModal, uploadCall, confirmDialog>>
    \/ ClearFrames /\ UNCHANGED <<edVars, capVars, appVars, camVars, stVars, cropCall, metaVars, errorModal, uploadCall, confirmDialog>>
    \/ \E t \in CompositorTemplates, isMirrored \in BOOLEAN : compositeStrip(t, isMirrored) /\ UNCHANGED <<edVars, capVars, appVars, camVars, stVars, cropCall, metaVars, errorModal, uploadCall, confirmDialog>>
    \/ \E t \in SingleTemplates, isMirrored \in BOOLEAN : composite(t, isMirrored) /\ UNCHANGED <<edVars, capVars, appVars, camVars, stVars, cropCall, metaVars, errorModal, uploadCall, confirmDialog>>
    \/ \E k \in 1..MaxComposites, frameImg \in ArtworkSizes : ArtworkLoad(k, frameImg) /\ UNCHANGED <<edVars, capVars, appVars, camVars, stVars, cropCall, metaVars, errorModal, uploadCall, confirmDialog>>
    \/ \E k \in 1..MaxComposites : ArtworkError(k) /\ UNCHANGED <<edVars, capVars, appVars, camVars, stVars, cropCall, metaVars, errorModal, uploadCall, confirmDialog>>

(***************************************************************************)
(* TemplateEditor: saving and loading the edited template                  *)
(***************************************************************************)
\* the names typed into the name field: empty, 50 and 51 characters
EditorNames ==
    {"", "12345678901234567890123456789012345678901234567890",
     "123456789012345678901234567890123456789012345678901"}
\* the frame sizes uploaded
EditorDims == {<<MIN_DIMENSION, MIN_DIMENSION + DimStep>>, <<MIN_DIMENSION + DimStep, MIN_DIMENSION>>}
\* the ids loadTemplate is called with
EditorIds == {CustomId(0), CustomId(1), "x"}

\* the input event of the name field
InputName(name) ==
    /\ templateName' = name
    /\ UNCHANGED <<templateId, createdAt, frameImage, framePreviewSrc, loadingImage>>
    /\ UNCHANGED <<edVars, stVars, currentScreen>>

\* resetEditor()
resetEditor ==
    /\ frameImage' = "null"
    /\ frameWidth' = 0
    /\ frameHeight' = 0
    /\ shotCount' = 2
    /\ photoSlots' = <<>>
    /\ editingSlotIndex' = -1
    /\ templateName' = ""
    /\ templateId' = ""
    /\ createdAt' = Null
    /\ UNCHANGED <<scale, viewport, isDragging, isResizing, dragStart, activeSlot,
                   resizeHandle, framePreviewSrc, loadingImage>>

\* the checks of saveTemplate that return before anything is sent; the
\* variant forgets the frame image
SaveRefusedMutNoImageCheck == templateName = "" \/ Len(templateName) > 50
SaveRefused ==
    \/ templateName = "" \/ frameImage = "null"
    \/ Len(templateName) < 1 \/ Len(templateName) > 50

\* the template object saveTemplate builds
EditedTemplate ==
    [id |-> IF templateId # "" THEN templateId ELSE CustomId(now),
     name |-> templateName, shots |-> shotCount,
     frameImageData |-> framePreviewSrc, frameImage |-> framePreviewSrc,
     frameWidth |-> frameWidth, frameHeight |-> frameHeight,
     photoSlots |-> photoSlots, style |-> "custom-frame", category |-> "strip",
     layout |-> "strip", isCustom |-> TRUE]

\* TemplateEditor.saveTemplate()
EditorSaveTemplate(outcome) ==
    IF SaveRefused
    THEN UNCHANGED <<edVars, metaVars, stVars, currentScreen>>
    ELSE /\ result.n < MaxOps
         /\ IF templateId # ""
            THEN /\ update("store", templateId,
                           Spread(EditedTemplate, [createdAt |-> createdAt]), outcome)
                 /\ UNCHANGED <<now, selectedTemplateId>>
            ELSE save(EditedTemplate, outcome)
         /\ IF result'.kind = "ok"
            THEN /\ currentScreen' = "templates"
                 /\ resetEditor
            ELSE UNCHANGED <<edVars, metaVars, currentScreen>>

\* cancelEditor(), confirmed
cancelEditor ==
    /\ currentScreen' = "templates"
    /\ resetEditor
    /\ UNCHANGED stVars

\* TemplateEditor.loadTemplate(templateId)
loadTemplate(id) ==
    LET found == getById(store, id)
        template == found[1]
    IN IF found = <<>>
       THEN UNCHANGED <<edVars, metaVars, stVars, currentScreen>>
       ELSE /\ templateId' = template.id
            /\ templateName' = template.name
            /\ shotCount' = template.shots
            /\ frameWidth' = template.frameWidth
            /\ frameHeight' = template.frameHeight
            /\ photoSlots' = template.photoSlots
            /\ createdAt' = IF Has(template, "createdAt") THEN template.createdAt ELSE Null
            /\ loadingImage' = loadingImage \cup {template.frameImageData}
            /\ UNCHANGED <<editingSlotIndex, scale, viewport, isDragging, isResizing,
                           dragStart, activeSlot, resizeHandle, frameImage,
                           framePreviewSrc, stVars, currentScreen>>

\* img.onload of loadTemplate
TemplateImageLoad(dataUrl) ==
    /\ dataUrl \in loadingImage
    /\ loadingImage' = loadingImage \ {dataUrl}
    /\ frameImage' = "image"
    /\ framePreviewSrc' = dataUrl
    /\ scale' = IF frameWidth = 0 THEN scale ELSE RenderScale
    /\ UNCHANGED <<frameWidth, frameHeight, shotCount, photoSlots, editingSlotIndex,
                   viewport, isDragging, isResizing, dragStart, activeSlot, resizeHandle,
                   templateName, templateId, createdAt, stVars, currentScreen>>

NextSave ==
    \/ \E name \in EditorNames : name # templateName /\ InputName(name) /\ UNCHANGED <<selectedShots, capturedFrames, capturedCanvas, composites>> /\ UNCHANGED <<capVars, camVars, cropCall, compVars, errorModal, uploadCall, confirmDialog>>
    \/ \E d \in EditorDims : handleFileUpload(d[1], d[2], UploadedPng) /\ UNCHANGED <<capVars, appVars, camVars, stVars, cropCall, compVars, errorModal, uploadCall, confirmDialog>>
    \/ \E o \in StorageOutcomes : EditorSaveTemplate(o) /\ UNCHANGED <<selectedShots, capturedFrames, capturedCanvas, composites>> /\ UNCHANGED <<capVars, camVars, cropCall, compVars, errorModal, uploadCall, confirmDialog>>
    \/ cancelEditor /\ UNCHANGED <<selectedShots, capturedFrames, capturedCanvas, composites>> /\ UNCHANGED <<capVars, camVars, cropCall, compVars, errorModal, uploadCall, confirmDialog>>
    \/ \E id \in EditorIds : loadTemplate(id) /\ UNCHANGED <<selectedShots, capturedFrames, capturedCanvas, composites>> /\ UNCHANGED <<capVars, camVars, cropCall, compVars, errorModal, uploadCall, confirmDialog>>
    \/ \E d \in loadingImage : TemplateImageLoad(d) /\ UNCHANGED <<selectedShots, capturedFrames, capturedCanvas, composites>> /\ UNCHANGED <<capVars, camVars, cropCall, compVars, errorModal, uploadCall, confirmDialog>>
    \/ Tick /\ UNCHANGED <<edVars, capVars, appVars, camVars, cropCall, compVars, metaVars, errorModal, uploadCall, confirmDialog>>

(***************************************************************************)
(* App: camera start, camera switch and the error modal                    *)
(***************************************************************************)
\* the names of the errors getUserMedia rejects with
DeviceErrors == {"NotAllowedError", "NotFoundError", "NotReadableError",
                 "OverconstrainedError"}

\* a template button: startCameraScreen() up to await getAvailableCameras()
OpenCameraScreen(shots) ==
    /\ SelectTemplate(shots)
    /\ getAvailableCameras
    /\ UNCHANGED errorModal

\* btnCloseError: hide the modal, startCameraScreen()
btnCloseError ==
    /\ errorModal # ""
    /\ selectedShots # 0
    /\ errorModal' = ""
    /\ startCameraScreen(selectedShots)
    /\ getAvailableCameras
    /\ UNCHANGED <<capturedCanvas, capVars>>

\* the permission probe of getAvailableCameras fulfils; startCameraScreen
\* goes on to await Camera.startCamera()
ProbeResolve(p) ==
    /\ p \in pendingGum /\ p.by = "probe"
    /\ gumCount < MaxRequests
    /\ liveStreams' = StopTracks(liveStreams \cup {p.req}, currentStream)
    /\ currentStream' = 0
    /\ srcObject' = 0
    /\ cameraStopped' = FALSE
    /\ gumCount' = gumCount + 1
    /\ pendingGum' = (pendingGum \ {p}) \cup {GumRequest(gumCount + 1, "start", 0)}
    /\ UNCHANGED <<appVars, capVars, errorModal, uploadCall, confirmDialog>>

\* the getUserMedia of startCamera fulfils
StartResolve(p) ==
    /\ p.by = "start"
    /\ GumResolve(p)
    /\ UNCHANGED <<appVars, capVars, errorModal, uploadCall, confirmDialog>>

\* cameraSelect 'change': App.switchCamera()
AppSwitchCamera(deviceId) ==
    /\ currentScreen = "camera"
    /\ switchCamera(deviceId)
    /\ UNCHANGED <<appVars, capVars, errorModal, uploadCall, confirmDialog>>

\* showError(message): the modal, and the templates screen
showError(error) ==
    /\ errorModal' = error
    /\ currentScreen' = "templates"

\* getUserMedia rejects with `error`: startCameraScreen catches it and calls
\* showError, App.switchCamera catches it and logs it
DeviceError(p, error) ==
    /\ GumReject(p)
    /\ IF p.by = "probe" \/ p.deviceId = 0
       THEN showError(error)
       ELSE UNCHANGED <<currentScreen, errorModal, uploadCall, confirmDialog>>
    /\ UNCHANGED <<selectedShots, capturedFrames, capturedCanvas, composites, capVars>>

\* btnBackTemplates
BackFromCamera ==
    /\ BtnBackTemplates
    /\ stopCamera
    /\ UNCHANGED errorModal

NextCameraScreen ==
    \/ BtnStart /\ UNCHANGED <<camVars, errorModal, uploadCall, confirmDialog>> /\ UNCHANGED <<edVars, stVars, cropCall, compVars, metaVars, uploadCall, confirmDialog>>
    \/ \E shots \in AllowedShots : OpenCameraScreen(shots) /\ UNCHANGED <<edVars, stVars, cropCall, compVars, metaVars, uploadCall, confirmDialog>>
    \/ btnCloseError /\ UNCHANGED <<edVars, stVars, cropCall, compVars, metaVars, uploadCall, confirmDialog>>
    \/ \E p \in pendingGum : ProbeResolve(p) /\ UNCHANGED <<edVars, stVars, cropCall, compVars, metaVars, uploadCall, confirmDialog>>
    \/ \E p \in pendingGum : StartResolve(p) /\ UNCHANGED <<edVars, stVars, cropCall, compVars, metaVars, uploadCall, confirmDialog>>
    \/ \E d \in DeviceIds : AppSwitchCamera(d) /\ UNCHANGED <<edVars, stVars, cropCall, compVars, metaVars, uploadCall, confirmDialog>>
    \/ \E p \in pendingGum, e \in DeviceErrors : DeviceError(p, e) /\ UNCHANGED <<edVars, stVars, cropCall, compVars, metaVars, uploadCall, confirmDialog>>
    \/ BackFromCamera /\ UNCHANGED <<edVars, stVars, cropCall, compVars, metaVars, uploadCall, confirmDialog>>

(***************************************************************************)
(* TemplateUploader                                                        *)
(***************************************************************************)
RECOMMENDED_WIDTH == 1080
RECOMMENDED_HEIGHT == 1920

\* the files handed to processUpload: MIME type, size in bytes, whether the
\* bytes decode as an image, and the decoded image's dimensions
FileTypes == {"image/png", "image/jpeg", ""}
FileSizes == {1, MAX_FILE_SIZE, MAX_FILE_SIZE + 1}
ImageWidths == {MIN_DIMENSION - 1, MIN_DIMENSION, RECOMMENDED_WIDTH, RECOMMENDED_WIDTH + 1,
                RECOMMENDED_WIDTH * 2, RECOMMENDED_WIDTH * 2 + 1, MAX_DIMENSION,
                MAX_DIMENSION + 1}
ImageHeights == {MIN_DIMENSION - 1, MIN_DIMENSION, RECOMMENDED_HEIGHT,
                 RECOMMENDED_HEIGHT + 1, RECOMMENDED_HEIGHT * 2,
                 RECOMMENDED_HEIGHT * 2 + 1, MAX_DIMENSION, MAX_DIMENSION + 1}
File(type, size, decodes, width, height) ==
    [type |-> type, size |-> size, decodes |-> decodes, width |-> width, height |-> height]
Files ==
    {File(t, s, d, w, h) : t \in FileTypes, s \in FileSizes, d \in BOOLEAN,
                           w \in ImageWidths, h \in ImageHeights}

Rejection(error) == [ok |-> FALSE, error |-> error]

\* validateFile(file): the Error it throws, "ok" when it returns true
validateFile(file) ==
    IF file.type # "image/png" THEN "type"
    ELSE IF file.size > MAX_FILE_SIZE THEN "size"
    ELSE "ok"

\* loadImage(file): img.onerror, or the dimension checks of img.onload
loadImage(file) ==
    IF ~file.decodes THEN "corrupt"
    ELSE IF file.width < MIN_DIMENSION \/ file.height < MIN_DIMENSION THEN "too-small"
    ELSE IF file.width > MAX_DIMENSION \/ file.height > MAX_DIMENSION THEN "too-large"
    ELSE "ok"

\* processUpload(file)
processUpload(file) ==
    IF validateFile(file) # "ok" THEN Rejection(validateFile(file))
    ELSE IF loadImage(file) # "ok" THEN Rejection(loadImage(file))
    ELSE [ok |-> TRUE, width |-> file.width, height |-> file.height,
          isRecommendedSize |-> (file.width = RECOMMENDED_WIDTH
                                 /\ file.height = RECOMMENDED_HEIGHT),
          sizeWarning |->
              IF file.width < RECOMMENDED_WIDTH \/ file.height < RECOMMENDED_HEIGHT
              THEN "smaller"
              ELSE IF file.width > RECOMMENDED_WIDTH * 2
                      \/ file.height > RECOMMENDED_HEIGHT * 2
              THEN "very-large"
              ELSE "null"]

InitUpload == uploadCall = [file |-> File("", 1, FALSE, 0, 0), result |-> Rejection("none")]

CallProcessUpload(file) ==
    uploadCall' = [file |-> file, result |-> processUpload(file)]

NextUpload ==
    \E file \in Files : CallProcessUpload(file) /\ UNCHANGED <<edVars, capVars, appVars, camVars, stVars, cropCall, compVars, metaVars, errorModal, confirmDialog>>

(***************************************************************************)
(* TemplateEditor: gestures together with the other writers of the slots   *)
(***************************************************************************)
\* the reset-slots button and the shot count select are not disabled while a
\* slot is dragged or resized; the pointer positions of the gestures
GesturePts == {<<13, 12>>, <<13, 35>>}

NextGesture ==
    \/ \E p \in GesturePts : MouseDownHandle(Sub * p[1], Sub * p[2]) /\ UNCHANGED <<capVars, appVars, camVars, stVars, cropCall, compVars, metaVars, errorModal, uploadCall, confirmDialog>>
    \/ \E p \in GesturePts : MouseDownSlot(Sub * p[1], Sub * p[2]) /\ UNCHANGED <<capVars, appVars, camVars, stVars, cropCall, compVars, metaVars, errorModal, uploadCall, confirmDialog>>
    \/ \E p \in GesturePts : MouseMoveDrag(Sub * p[1], Sub * p[2]) /\ UNCHANGED <<capVars, appVars, camVars, stVars, cropCall, compVars, metaVars, errorModal, uploadCall, confirmDialog>>
    \/ \E p \in GesturePts : MouseMoveResize(Sub * p[1], Sub * p[2]) /\ UNCHANGED <<capVars, appVars, camVars, stVars, cropCall, compVars, metaVars, errorModal, uploadCall, confirmDialog>>
    \/ handleMouseUp /\ UNCHANGED <<capVars, appVars, camVars, stVars, cropCall, compVars, metaVars, errorModal, uploadCall, confirmDialog>>
    \/ \E n \in AllowedShots, accepted \in BOOLEAN : n # shotCount /\ handleShotCountChange(n, accepted) /\ UNCHANGED <<capVars, appVars, camVars, stVars, cropCall, compVars, metaVars, errorModal, uploadCall>>
    \/ frameWidth # 0 /\ ResetSlots /\ UNCHANGED <<capVars, appVars, camVars, stVars, cropCall, compVars, metaVars, errorModal, uploadCall, confirmDialog>>

(***************************************************************************)
(* Specifications                                                          *)
(***************************************************************************)
InitEditorSpec == InitEditor /\ InitCapture /\ InitApp /\ InitCamera /\ InitStore /\ InitCrop({DefaultCropInput}) /\ InitCompositor /\ InitMeta /\ errorModal = "" /\ InitUpload /\ InitConfirm
SpecEditor == InitEditorSpec /\ [][NextEditor]_vars

InitSlotsSpec == InitSlots /\ InitCapture /\ InitApp /\ InitCamera /\ InitStore /\ InitCrop({DefaultCropInput}) /\ InitCompositor /\ InitMeta /\ errorModal = "" /\ InitUpload /\ InitConfirm
SpecSlots == InitSlotsSpec /\ [][NextSlots]_vars

InitCaptureSpec == InitSlots /\ InitCapture /\ InitApp /\ InitCamera /\ InitStore /\ InitCrop({DefaultCropInput}) /\ InitCompositor /\ InitMeta /\ errorModal = "" /\ InitUpload /\ InitConfirm
SpecCapture == InitCaptureSpec /\ [][NextCapture]_vars

InitAppSpec == InitSlots /\ InitCapture /\ InitApp /\ InitCamera /\ InitStore /\ InitCrop({DefaultCropInput}) /\ InitCompositor /\ InitMeta /\ errorModal = "" /\ InitUpload /\ InitConfirm
SpecApp == InitAppSpec /\ [][NextApp]_vars

InitCameraSpec == InitSlots /\ InitCapture /\ InitApp /\ InitCamera /\ InitStore /\ InitCrop({DefaultCropInput}) /\ InitCompositor /\ InitMeta /\ errorModal = "" /\ InitUpload /\ InitConfirm
SpecCamera == InitCameraSpec /\ [][NextCamera]_vars

InitStoreSpec == InitSlots /\ InitCapture /\ InitApp /\ InitCamera /\ InitStore /\ InitCrop({DefaultCropInput}) /\ InitCompositor /\ InitMeta /\ errorModal = "" /\ InitUpload /\ InitConfirm
SpecStore == InitStoreSpec /\ [][NextStore]_vars

InitCropSpec == InitSlots /\ InitCapture /\ InitApp /\ InitCamera /\ InitStore /\ InitCrop(CropInputs) /\ InitCompositor /\ InitMeta /\ errorModal = "" /\ InitUpload /\ InitConfirm
SpecCrop == InitCropSpec /\ [][NextCrop]_vars

InitCompositorSpec == InitSlots /\ InitCapture /\ InitApp /\ InitCamera /\ InitStore /\ InitCrop({DefaultCropInput}) /\ InitCompositor /\ InitMeta /\ errorModal = "" /\ InitUpload /\ InitConfirm
SpecCompositor == InitCompositorSpec /\ [][NextCompositor]_vars
\* the browser fires load or error for every image whose src was set
SpecCompositorFair ==
    SpecCompositor /\ \A k \in 1..MaxComposites : WF_vars(ArtworkSettles(k) /\ UNCHANGED <<edVars, capVars, appVars, camVars, stVars, cropCall, metaVars, errorModal, uploadCall, confirmDialog>>)

SpecSequencer == InitCaptureSpec /\ [][NextSequencer]_vars /\ WF_vars(TimerFires)

InitSaveSpec == InitSlots /\ InitCapture /\ InitApp /\ InitCamera /\ InitStore /\ InitCrop({DefaultCropInput}) /\ InitCompositor /\ InitMeta /\ errorModal = "" /\ InitUpload /\ InitConfirm
SpecSave == InitSaveSpec /\ [][NextSave]_vars

InitCameraScreenSpec == InitSlots /\ InitCapture /\ InitApp /\ InitCamera /\ InitStore /\ InitCrop({DefaultCropInput}) /\ InitCompositor /\ InitMeta /\ errorModal = "" /\ InitUpload /\ InitConfirm
SpecCameraScreen == InitCameraScreenSpec /\ [][NextCameraScreen]_vars

InitUploadSpec == InitSlots /\ InitCapture /\ InitApp /\ InitCamera /\ InitStore /\ InitCrop({DefaultCropInput}) /\ InitCompositor /\ InitMeta /\ errorModal = "" /\ InitUpload /\ InitConfirm
SpecUpload == InitUploadSpec /\ [][NextUpload]_vars

InitGestureSpec == InitEditor /\ InitCapture /\ InitApp /\ InitCamera /\ InitStore /\ InitCrop({DefaultCropInput}) /\ InitCompositor /\ InitMeta /\ errorModal = "" /\ InitUpload /\ InitConfirm
SpecGesture == InitGestureSpec /\ [][NextGesture]_vars

\* mousedown at every pointer position, between gestures that move and resize
\* the slots under it
NextHitTest ==
    \/ \E p \in PointerPts : MouseDownHandle(Sub * p[1], Sub * p[2]) /\ UNCHANGED <<capVars, appVars, camVars, stVars, cropCall, compVars, metaVars, errorModal, uploadCall, confirmDialog>>
    \/ \E p \in PointerPts : MouseDownSlot(Sub * p[1], Sub * p[2]) /\ UNCHANGED <<capVars, appVars, camVars, stVars, cropCall, compVars, metaVars, errorModal, uploadCall, confirmDialog>>
    \/ \E p \in PointerPts : MouseDownOutside(Sub * p[1], Sub * p[2]) /\ UNCHANGED <<capVars, appVars, camVars, stVars, cropCall, compVars, metaVars, errorModal, uploadCall, confirmDialog>>
    \/ \E p \in GesturePts : MouseMoveDrag(Sub * p[1], Sub * p[2]) /\ UNCHANGED <<capVars, appVars, camVars, stVars, cropCall, compVars, metaVars, errorModal, uploadCall, confirmDialog>>
    \/ \E p \in GesturePts : MouseMoveResize(Sub * p[1], Sub * p[2]) /\ UNCHANGED <<capVars, appVars, camVars, stVars, cropCall, compVars, metaVars, errorModal, uploadCall, confirmDialog>>
    \/ handleMouseUp /\ UNCHANGED <<capVars, appVars, camVars, stVars, cropCall, compVars, metaVars, errorModal, uploadCall, confirmDialog>>
    \/ ResizeViewport /\ UNCHANGED <<capVars, appVars, camVars, stVars, cropCall, compVars, metaVars, errorModal, uploadCall, confirmDialog>>

SpecHitTest == InitEditorSpec /\ [][NextHitTest]_vars

\* pointer positions near each of the four corners of the slots, inside the
\* slots, and outside the canvas
CornerPts == {<<1, 0>>, <<51, 0>>, <<1, 50>>, <<51, 50>>, <<26, 25>>, <<-3, 61>>}

\* gestures that pick up every handle of a slot
NextResize ==
    \/ \E p \in CornerPts : MouseDownHandle(Sub * p[1], Sub * p[2]) /\ UNCHANGED <<capVars, appVars, camVars, stVars, cropCall, compVars, metaVars, errorModal, uploadCall, confirmDialog>>
    \/ \E p \in CornerPts : MouseDownSlot(Sub * p[1], Sub * p[2]) /\ UNCHANGED <<capVars, appVars, camVars, stVars, cropCall, compVars, metaVars, errorModal, uploadCall, confirmDialog>>
    \/ \E p \in CornerPts : MouseMoveDrag(Sub * p[1], Sub * p[2]) /\ UNCHANGED <<capVars, appVars, camVars, stVars, cropCall, compVars, metaVars, errorModal, uploadCall, confirmDialog>>
    \/ \E p \in CornerPts : MouseMoveResize(Sub * p[1], Sub * p[2]) /\ UNCHANGED <<capVars, appVars, camVars, stVars, cropCall, compVars, metaVars, errorModal, uploadCall, confirmDialog>>
    \/ handleMouseUp /\ UNCHANGED <<capVars, appVars, camVars, stVars, cropCall, compVars, metaVars, errorModal, uploadCall, confirmDialog>>
    \/ ResizeViewport /\ UNCHANGED <<capVars, appVars, camVars, stVars, cropCall, compVars, metaVars, errorModal, uploadCall, confirmDialog>>

SpecResize == InitEditorSpec /\ [][NextResize]_vars

\* SPEC-END

C2_DefaultSlotsValid ==
    frameWidth # 0 =>
        /\ Len(photoSlots) = shotCount
        /\ \A i \in 1..Len(photoSlots) :
               SlotContained(photoSlots[i], frameWidth, frameHeight)

TimersOf(c) == {t \in timers : t.call = c}

\* C3: once cancelCapture has been called during a sequence, no timer of that
\* sequence is pending, the sequencer is idle (until a later start), and
\* neither its per-shot callback nor its completion callback runs any more.
C3_CancelComplete ==
    \A c \in 1..Len(calls) :
        calls[c].cancelled =>
            /\ TimersOf(c) = {}
            /\ Len(calls[c].shotLog) = calls[c].logAtCancel
            /\ calls[c].completed = 0
            /\ (c = Len(calls) => ~isCapturing)

\* C4: a startCapture / startMultiCapture call made while isBusy() is true
\* starts no timer, changes no sequencer state, and its callbacks never run.
C4_BusyStartIsNoOp ==
    [][/\ (Len(calls') = Len(calls) + 1 /\ isCapturing) =>
            /\ ~calls'[Len(calls')].accepted
            /\ UNCHANGED <<countdownSeconds, isCapturing, countdownInterval, timers,
                           nextTimer, countdownDisplay, shotIndicator>>
            /\ \A c \in 1..Len(calls) : calls'[c] = calls[c]
       /\ \A c \in 1..Len(calls') :
              ~calls'[c].accepted =>
                  /\ {t \in timers' : t.call = c} = {}
                  /\ calls'[c].shotLog = <<>>
                  /\ calls'[c].completed = 0
      ]_vars

\* a call was refused while an earlier multi-shot sequence was running, and
\* that sequence went on to deliver a shot
C4_Witness ==
    /\ Len(calls) = 2
    /\ calls[1].accepted /\ ~calls[2].accepted
    /\ ~calls[1].cancelled
    /\ calls[1].shotLog # <<>>
    /\ isCapturing

\* C5: an uncancelled multi-shot capture of N shots invokes the per-shot
\* callback with 0, 1, ..., N-1 in this order, N times in all, and the
\* all-complete callback once, after the N-th per-shot callback.
C5_ShotsInOrder ==
    \A c \in 1..Len(calls) :
        (calls[c].accepted /\ calls[c].mode = "multi" /\ ~calls[c].cancelled) =>
            /\ Len(calls[c].shotLog) <= calls[c].total
            /\ \A i \in 1..Len(calls[c].shotLog) : calls[c].shotLog[i] = i - 1
            /\ calls[c].completed <= 1
            /\ (calls[c].completed = 1 => Len(calls[c].shotLog) = calls[c].total)

\* C6: every compositeStrip call of the capture flow holds exactly
\* template.shots frames, all from the per-shot callbacks of one capture
\* session in shot order, and the list is not changed while the frame artwork
\* is loading.
C6_CompositorFrames ==
    \A k \in composites :
        /\ Len(k.snapshot) = k.shots
        /\ \A i \in 1..Len(k.snapshot) : k.snapshot[i] = Frame(k.call, i - 1)
        /\ k.frames = k.snapshot

\* C7: in every reachable state at most one acquired camera stream has
\* un-stopped tracks, whoever acquired it (startCamera, switchCamera or the
\* permission probe of getAvailableCameras) and however the calls overlap.
C7_OneLiveStream ==
    Cardinality(liveStreams) <= 1

\* the template an update / remove call addresses carries isDefault = true:
\* the first stored template of that id, or for the registry the template
\* Templates.getById finds
AddressesDefault(via, ts, id) ==
    LET found == IF via = "store" THEN getById(ts, id) ELSE TemplatesGetById(ts, id)
    IN found # <<>> /\ Has(found[1], "isDefault") /\ found[1].isDefault

\* C8: every update or remove call (store or registry) on a template whose
\* isDefault flag is true fails with the default-template error, whatever the
\* payload, and leaves the catalog unchanged.
C8_DefaultImmutable ==
    [][(/\ result'.n = result.n + 1
        /\ result'.op \in {"update", "remove"}
        /\ AddressesDefault(result'.via, store, result'.id))
           => (result'.kind = "default" /\ store' = store)]_vars

\* C9: a save of a valid template while the store holds 20 templates fails
\* with the capacity error and the persisted list is unchanged.
C9_CapacityOnSave ==
    [][(/\ result'.n = result.n + 1
        /\ result'.op = "save"
        /\ Len(store) = MAX_TEMPLATES
        /\ validateTemplate(result'.arg) = "ok")
           => (result'.kind = "capacity" /\ store' = store)]_vars

\* a valid template was refused for capacity and the 20 templates are there
C9_Witness ==
    /\ result.op = "save"
    /\ result.kind = "capacity"
    /\ validateTemplate(result.arg) = "ok"
    /\ Len(store) = MAX_TEMPLATES

\* C10: after a successful save(t) below capacity, getById(save(t).id) equals
\* t in every property other than id, createdAt and updatedAt; after a
\* successful update(id, u), getById(id) has every property of u (other than
\* createdAt) and the createdAt the template had before.
C10_RoundTrip ==
    [][(result'.n = result.n + 1 /\ result'.kind = "ok") =>
          /\ (result'.op = "save" /\ Len(store) < MAX_TEMPLATES) =>
                 LET got == getById(store', result'.ret)
                     t == result'.arg
                 IN /\ got # <<>>
                    /\ \A f \in (DOMAIN t) \ {"id", "createdAt", "updatedAt"} :
                           Has(got[1], f) /\ got[1][f] = t[f]
          /\ (result'.op = "update") =>
                 LET got == getById(store', result'.id)
                     before == getById(store, result'.id)
                     u == result'.arg
                 IN /\ got # <<>>
                    /\ \A f \in (DOMAIN u) \ {"createdAt"} :
                           Has(got[1], f) /\ got[1][f] = u[f]
                    /\ Has(got[1], "createdAt") = Has(before[1], "createdAt")
                    /\ Has(got[1], "createdAt") => got[1].createdAt = before[1].createdAt
       ]_vars

\* the Template invariants of a persisted template
SlotWithinFrame(s, fw, fh) ==
    /\ s.width >= 50 /\ s.height >= 50
    /\ s.x >= 0 /\ s.y >= 0
    /\ s.x + s.width <= fw /\ s.y + s.height <= fh
TemplateInvariant(t) ==
    /\ Has(t, "name") /\ Len(t.name) >= 1 /\ Len(t.name) <= 50
    /\ Has(t, "shots") /\ t.shots \in {2, 3}
    /\ Has(t, "photoSlots") /\ Len(t.photoSlots) = t.shots
    /\ \A i \in 1..Len(t.photoSlots) :
           /\ \A f \in {"x", "y", "width", "height"} :
                  Has(t.photoSlots[i], f) /\ t.photoSlots[i][f] \notin {NaN, JsonNull}
           /\ SlotWithinFrame(t.photoSlots[i], t.frameWidth, t.frameHeight)
    /\ Has(t, "frameImageData") /\ t.frameImageData.mime = "image/png"
    /\ t.frameImageData.length * 100 <= MAX_FILE_SIZE * 137
ValidationErrors ==
    {"name-required", "name-length", "shots", "image-required", "image-format",
     "image-size", "dimensions-required", "dimensions-small", "slot-count",
     "slot-coordinates", "slot-small", "slot-bounds"}
\* the templates a call asks the store to persist
Candidates(r, ts) ==
    IF r.op = "save" THEN <<Stringify(r.arg)>>
    ELSE IF r.op = "import" THEN r.arg.list
    ELSE IF r.op = "update" /\ getById(ts, r.id) # <<>>
    THEN <<Stringify(Spread(getById(ts, r.id)[1], r.arg))>>
    ELSE <<>>

\* C11: every persisted template satisfies the Template invariants (name
\* length, shots in {2, 3}, slot count, slots at least 50x50 inside the frame,
\* PNG payload within the size limit), and a save / update / import that asks
\* to persist a template violating them fails with a validation error and
\* leaves the store unchanged.
C11_PersistedTemplatesValid ==
    /\ [](\A i \in 1..Len(store) : TemplateInvariant(store[i]))
    /\ [][(/\ result'.n = result.n + 1
            /\ \E i \in 1..Len(Candidates(result', store)) :
                   ~TemplateInvariant(Candidates(result', store)[i]))
              => /\ store' = store
                 /\ result'.kind \in ValidationErrors \cup {"import-failed"}]_vars

\* no persisted template carries the id
IdAbsent(ts, id) == \A i \in 1..Len(ts) : ~(Has(ts[i], "id") /\ ts[i].id = id)

\* C12: update and remove called with an id that no persisted template has
\* fail with the not-found error and leave the persisted list unchanged.
C12_NotFound ==
    [][(/\ result'.n = result.n + 1
        /\ result'.op \in {"update", "remove"}
        /\ result'.via = "store"
        /\ IdAbsent(store, result'.id))
           => (result'.kind = "not-found" /\ store' = store)]_vars

\* an update of an unknown id was refused while other templates are stored
C12_Witness ==
    /\ result.op = "update"
    /\ result.via = "store"
    /\ result.kind = "not-found"
    /\ Len(store) > 0
    /\ IdAbsent(store, result.id)

\* the batch of an import call is refused by validation or by the capacity
BatchRefused(ts, batch) ==
    \/ \E i \in 1..Len(batch) : validateTemplate(batch[i]) # "ok"
    \/ Len(ts) + Len(batch) > MAX_TEMPLATES

\* C13 as stated: a batch with an invalid record, or exceeding 20 together
\* with the stored templates, fails and leaves the store unchanged; every
\* other batch is added whole and the returned count is the batch size.
C13_ImportAllOrNothing ==
    [][(/\ result'.n = result.n + 1
        /\ result'.op = "import"
        /\ result'.arg.parsed = "array")
           => IF BatchRefused(store, result'.arg.list)
              THEN result'.kind # "ok" /\ store' = store
              ELSE /\ result'.kind = "ok"
                   /\ store' = store \o result'.arg.list
                   /\ result'.ret = ToString(Len(result'.arg.list))]_vars

\* C13 amended: as above, but a batch that passes validation and capacity may
\* still be refused when the write to localStorage throws; then too the store
\* is unchanged.  An import that succeeds adds the whole batch.
C13_ImportAllOrNothingAmended ==
    [][(/\ result'.n = result.n + 1
        /\ result'.op = "import"
        /\ result'.arg.parsed = "array")
           => /\ BatchRefused(store, result'.arg.list) => result'.kind # "ok"
              /\ IF result'.kind = "ok"
                 THEN /\ store' = store \o result'.arg.list
                      /\ result'.ret = ToString(Len(result'.arg.list))
                 ELSE store' = store]_vars

\* a batch of 19 was added whole to a store that held one template
C13_Witness ==
    /\ result.op = "import"
    /\ result.kind = "ok"
    /\ Len(result.arg.list) = MAX_TEMPLATES - 1
    /\ Len(store) = MAX_TEMPLATES
    /\ result.ret = ToString(MAX_TEMPLATES - 1)

\* C14: the error of a save / update tells its cause: the quota error is
\* thrown only for a valid template below capacity, a validation error only
\* for an invalid template, the capacity error only by save at 20 templates
\* with a valid template; the three kinds differ and in each case the
\* persisted store is unchanged.
C14_ErrorKindsDistinct ==
    [][(/\ result'.n = result.n + 1
        /\ result'.op \in {"save", "update"}
        /\ result'.kind \in ValidationErrors \cup {"quota", "capacity"})
           => LET valid == IF result'.op = "save"
                           THEN validateTemplate(result'.arg) = "ok"
                           ELSE getById(store, result'.id) # <<>>
                                /\ validateTemplate(Spread(getById(store, result'.id)[1],
                                                           result'.arg)) = "ok"
              IN /\ store' = store
                 /\ "quota" \notin ValidationErrors \cup {"capacity"}
                 /\ "capacity" \notin ValidationErrors
                 /\ result'.kind \in ValidationErrors <=> ~valid
                 /\ result'.kind = "capacity" =>
                        result'.op = "save" /\ Len(store) >= MAX_TEMPLATES
                 /\ result'.kind = "quota" =>
                        (result'.op = "save" => Len(store) < MAX_TEMPLATES)]_vars

\* a save of a valid template below capacity was refused for quota
C14_Witness ==
    /\ result.op = "save"
    /\ result.kind = "quota"
    /\ validateTemplate(result.arg) = "ok"
    /\ Len(store) > 0
    /\ Len(store) < MAX_TEMPLATES

\* C15: every template of Templates.getAll has exactly one of isDefault and
\* isCustom true, and only the built-in templates have isDefault = true.
C15_ProvenanceExclusive ==
    \A i \in 1..Len(TemplatesGetAll(store)) :
        LET t == TemplatesGetAll(store)[i]
            isDefault == Has(t, "isDefault") /\ t.isDefault
            isCustom == Has(t, "isCustom") /\ t.isCustom
        IN /\ isDefault # isCustom
           /\ isDefault => i <= Len(defaultTemplates)

SameRectangle(x1, y1, w1, h1, x2, y2, w2, h2) ==
    QEq(x1, x2) /\ QEq(y1, y2) /\ QEq(w1, w2) /\ QEq(h1, h2)

\* C17: for the same slot and size, calculatePreviewOverlay and
\* calculateCropRegion select the same rectangle.
C17_PreviewParity ==
    cropCall.fn = "calculatePreviewOverlay" =>
        LET o == cropCall.box
            r == calculateCropRegion(cropCall.in.slot, cropCall.in.width, cropCall.in.height)
        IN SameRectangle(o.x, o.y, o.width, o.height, r.sx, r.sy, r.sw, r.sh)

\* the overlay of a container whose aspect ratio equals the slot's, not square
C17_Witness ==
    /\ cropCall.fn = "calculatePreviewOverlay"
    /\ cropCall.in.width * cropCall.in.slot.height
           = cropCall.in.height * cropCall.in.slot.width
    /\ cropCall.in.width > cropCall.in.height
    /\ cropCall.in.slot.width < cropCall.in.width

\* C18: the crop box of drawImageToArea / drawPhotoToArea equals
\* calculateCropRegion, and the box of updateCurrentShotOverlay equals
\* calculatePreviewOverlay, for the same inputs.
C18_SingleSourceOfTruth ==
    LET in == cropCall.in
        b == cropCall.box
        r == calculateCropRegion(in.slot, in.width, in.height)
        o == calculatePreviewOverlay(in.slot, in.width, in.height)
    IN /\ cropCall.fn \in {"drawImageToArea", "drawPhotoToArea"} =>
              SameRectangle(b.sx, b.sy, b.sw, b.sh, r.sx, r.sy, r.sw, r.sh)
       /\ cropCall.fn = "updateCurrentShotOverlay" =>
              SameRectangle(b.x, b.y, b.width, b.height, o.x, o.y, o.width, o.height)

\* the compositor cropped a frame taller than the slot from top and bottom
C18_Witness ==
    /\ cropCall.fn = "drawImageToArea"
    /\ QGt(cropCall.box.sy, Q(0, 1))
    /\ QGt(Q(cropCall.in.height, 1), cropCall.box.sh)

\* C19: a composite of a frame-image template whose artwork has loaded is
\* exactly template.frameWidth x template.frameHeight, whatever the natural
\* size of the artwork and the sizes of the frames.
C19_OutputDimensions ==
    \A k \in 1..Len(promises) :
        LET p == promises[k]
        IN (/\ p.state = "resolved"
            /\ p.canvas[1].via = "onload"
            /\ Has(p.template, "frameWidth") /\ Has(p.template, "frameHeight"))
               => /\ p.canvas[1].width = p.template.frameWidth
                  /\ p.canvas[1].height = p.template.frameHeight

\* the built-in 2-photo template composed with two 1920x1080 frames and an
\* artwork of another natural size
C19_Witness ==
    \E k \in 1..Len(promises) :
        /\ promises[k].state = "resolved"
        /\ promises[k].canvas[1].via = "onload"
        /\ promises[k].template = defaultTemplates[1]
        /\ promises[k].frames = <<VideoSize(1), VideoSize(1)>>
        /\ promises[k].canvas[1].width = 1080
        /\ promises[k].canvas[1].height = 1920
        /\ Len(promises[k].canvas[1].draws) = 2

\* the k-th call of compositeStrip was made on a frame-image template
OnFrameImage(k) ==
    IF k <= Len(promises) THEN promises[k].template.style = "custom-frame" ELSE FALSE
StateOf(k) == IF k <= Len(promises) THEN promises[k].state ELSE "none"
\* the k-th composite is the degraded one: white, no artwork, every frame in
\* its evenly computed rectangle of the 600x1800 strip
Degraded(k) ==
    LET c == promises[k].canvas[1]
        n == promises[k].template.shots
        photoHeight == Q(STRIP_HEIGHT - 50 - 12 * (n - 1), n)
    IN /\ c.width = STRIP_WIDTH /\ c.height = STRIP_HEIGHT
       /\ c.background = "#ffffff" /\ ~c.artwork
       /\ Len(c.draws) = Min(Len(promises[k].frames), n)
       /\ \A i \in 1..Len(c.draws) :
              /\ c.draws[i].frame = i
              /\ QEq(c.draws[i].area.x, Q(25, 1))
              /\ QEq(c.draws[i].area.width, Q(STRIP_WIDTH - 50, 1))
              /\ QEq(c.draws[i].area.height, photoHeight)
              /\ QEq(QSub(c.draws[i].area.y, Q(25 + 12 * (i - 1), 1)),
                     QMul(Q(i - 1, 1), photoHeight))
DegradedOnError(k) ==
    IF StateOf(k) = "resolved"
    THEN promises[k].canvas[1].via = "onerror" => Degraded(k)
    ELSE TRUE

\* C20: the promise of every compositeStrip call on a frame-image template is
\* eventually resolved, never rejected and never left pending; after a load
\* failure the image is white, without artwork, with every frame drawn into
\* its evenly computed rectangle.
C20_CompositeCompletes ==
    \A k \in 1..MaxComposites :
        /\ [](OnFrameImage(k) => StateOf(k) # "rejected")
        /\ OnFrameImage(k) ~> (StateOf(k) = "resolved")
        /\ []DegradedOnError(k)

\* the countdown intervals and flash timeouts of the single-shot call c
SingleIntervals(ts) == {t \in ts : t.kind = "interval" /\ calls[t.call].mode = "single"}
FlashesOf(ts, c) == {t \in ts : t.kind = "flash" /\ t.call = c}
\* this step is a tick of the interval t
Ticks(t) ==
    \/ [t EXCEPT !.remaining = @ - 1] \in timers'
    \/ /\ nextTimer' = nextTimer + 1
       /\ \A u \in timers' : u.id # t.id
       /\ FlashesOf(timers', t.call) # FlashesOf(timers, t.call)
\* this step is an accepted startCapture
StartsSingle ==
    /\ Len(calls') = Len(calls) + 1
    /\ calls'[Len(calls')].mode = "single"
    /\ calls'[Len(calls')].accepted

\* C21: startCapture with countdownSeconds = 0 triggers the capture at once
\* and shows no countdown; with n >= 1 the display shows n, then n-1, ..., 1
\* on the ticks, the capture is triggered on the n-th tick, the display is
\* hidden at that tick and the interval ticks no more.
C21_CountdownSequencing ==
    /\ [](\A t \in SingleIntervals(timers) : t.remaining >= 1)
    /\ [][ /\ StartsSingle =>
               LET c == Len(calls')
               IN IF countdownSeconds = 0
                  THEN /\ FlashesOf(timers', c) # {}
                       /\ countdownDisplay' = countdownDisplay
                  ELSE /\ FlashesOf(timers', c) = {}
                       /\ countdownDisplay' = countdownSeconds
                       /\ \E t \in timers' : /\ t.kind = "interval" /\ t.call = c
                                              /\ t.remaining = countdownSeconds
           /\ \A t \in SingleIntervals(timers) :
                 Ticks(t) =>
                    /\ t.remaining >= 1
                    /\ IF t.remaining = 1
                       THEN /\ countdownDisplay' = 0
                            /\ FlashesOf(timers', t.call) # {}
                            /\ \A u \in timers' : u.id # t.id
                       ELSE /\ countdownDisplay' = t.remaining - 1
                            /\ FlashesOf(timers', t.call) = FlashesOf(timers, t.call)
         ]_vars

Accepted(c) == IF c <= Len(calls) THEN calls[c].accepted ELSE FALSE
CompletedOnce(c) == IF c <= Len(calls) THEN calls[c].completed = 1 ELSE FALSE

\* C22: with fair timers and no cancel, every capture that was started from
\* Idle returns the sequencer to Idle and runs its completion callback exactly
\* once, the sequencer being idle when the callback runs.
C22_SequencerLiveness ==
    /\ \A c \in 1..MaxCalls :
           /\ Accepted(c) ~> (CompletedOnce(c) /\ ~isCapturing)
           /\ [](c <= Len(calls) => calls[c].completed <= 1)
    /\ [][\A c \in 1..Len(calls') :
             (IF c <= Len(calls) THEN calls'[c].completed # calls[c].completed
                                 ELSE calls'[c].completed # 0)
                => ~isCapturing']_vars

\* a two-shot strip with a countdown has taken both shots and completed
C22_Witness ==
    \E c \in 1..Len(calls) :
        /\ calls[c].mode = "multi" /\ calls[c].total = 2
        /\ calls[c].shotLog = <<0, 1>>
        /\ calls[c].completed = 1
        /\ countdownSeconds = 1
        /\ ~isCapturing

\* the state resetEditor leaves
EditorIsReset ==
    /\ frameImage = "null" /\ frameWidth = 0 /\ frameHeight = 0 /\ shotCount = 2
    /\ photoSlots = <<>> /\ editingSlotIndex = -1
    /\ templateName = "" /\ templateId = "" /\ createdAt = Null

\* C23: saveTemplate sends nothing to the store when the name is empty or
\* longer than 50 characters or no frame image is loaded; otherwise it sends
\* exactly one template, through save with a newly generated id when creating
\* and through update with the id of the loaded template when editing; a
\* rejected save leaves the editor state as it was and an accepted one
\* resets the editor.
C23_EditorSave ==
    [][ /\ result'.n \in {result.n, result.n + 1}
        /\ result'.n = result.n + 1 =>
              /\ templateName # "" /\ Len(templateName) <= 50 /\ frameImage = "image"
              /\ result'.via = "store"
              /\ IF templateId = ""
                 THEN /\ result'.op = "save"
                      /\ result'.arg.id = CustomId(now)
                      /\ result'.arg.name = templateName
                 ELSE /\ result'.op = "update"
                      /\ result'.id = templateId
                      /\ result'.arg.id = templateId
                      /\ result'.arg.name = templateName
              /\ IF result'.kind = "ok"
                 THEN EditorIsReset'
                 ELSE UNCHANGED <<frameWidth, frameHeight, shotCount, photoSlots,
                                  editingSlotIndex, metaVars, errorModal, uploadCall, confirmDialog>>
      ]_vars

\* a loaded template has been edited and updated under its id, and the editor
\* is reset
C23_Witness ==
    /\ result.n = 2 /\ result.op = "update" /\ result.kind = "ok"
    /\ result.id = CustomId(0)
    /\ Len(store) = 1 /\ store[1].id = CustomId(0)
    /\ EditorIsReset

\* this step is the rejection of the pending getUserMedia call p
Rejected(p) == p \in pendingGum /\ p \notin pendingGum' /\ p.req \notin liveStreams'

\* C24: every device error raised while starting or switching the camera
\* ends with a visible error message and with the templates screen current,
\* never the camera screen.
C24_DeviceErrorHandled ==
    [][\A p \in pendingGum :
          Rejected(p) => errorModal' # "" /\ currentScreen' = "templates"]_vars

\* C25: processUpload succeeds exactly for a PNG of at most 5 MB whose image
\* is 500..4000 pixels wide and high; each violated constraint has its own
\* error; a successful result carries a size advisory exactly when the image
\* is not 1080x1920.
C25_UploadValidation ==
    LET file == uploadCall.file
        res == uploadCall.result
        isPng == file.type = "image/png"
        sizeOk == file.size <= 5 * 1024 * 1024
        dimsOk == /\ file.width >= 500 /\ file.width <= 4000
                  /\ file.height >= 500 /\ file.height <= 4000
    IN (res.ok \/ res.error # "none") /\ (file.decodes \/ ~isPng \/ ~sizeOk) =>
          /\ res.ok <=> (isPng /\ sizeOk /\ dimsOk)
          /\ ~res.ok /\ ~isPng => res.error = "type"
          /\ ~res.ok /\ isPng /\ ~sizeOk => res.error = "size"
          /\ ~res.ok /\ isPng /\ sizeOk => res.error \in {"too-small", "too-large"}
          /\ res.ok => (res.sizeWarning # "null" <=> ~(file.width = 1080 /\ file.height = 1920))

\* C26: the number of persisted custom templates never exceeds 20, and a step
\* that adds templates keeps every template that was stored, in its place.
C26_CapacityInvariant ==
    /\ [](Len(store) <= 20)
    /\ [][Len(store') > Len(store)
            => \A i \in 1..Len(store) : store'[i] = store[i]]_vars

\* an import of valid templates into a full store was refused and the 20
\* templates are still there
C26_Witness ==
    /\ Len(store) = 20
    /\ result.op = "import"
    /\ result.kind = "import-failed"
    /\ result.arg.parsed = "array"
    /\ Len(result.arg.list) >= 1
    /\ \A i \in 1..Len(result.arg.list) : validateTemplate(result.arg.list[i]) = "ok"

InGesture == isDragging \/ isResizing

\* C27: between the mousedown that starts a drag or resize and the following
\* mouseup, the slot list changes only by the pointer moves of the gesture
\* (the active slot, nothing else), and the active slot index refers to an
\* existing slot.
C27_GestureExclusive ==
    /\ [](InGesture => activeSlot >= 0 /\ activeSlot < Len(photoSlots))
    /\ [][InGesture /\ photoSlots' # photoSlots
            => /\ Len(photoSlots') = Len(photoSlots)
               /\ shotCount' = shotCount
               /\ frameWidth' = frameWidth /\ frameHeight' = frameHeight
               /\ \A i \in 1..Len(photoSlots) :
                     i # activeSlot + 1 => photoSlots'[i] = photoSlots[i]]_vars


\* the four corners of a slot as displayed, with the handle each one carries
Corners(slot, den) ==
    LET sx == ToDisplay(slot.x, den)
        sy == ToDisplay(slot.y, den)
        sw == ToDisplay(slot.width, den)
        sh == ToDisplay(slot.height, den)
    IN  {<<"tl", sx, sy>>, <<"tr", sx + sw, sy>>,
         <<"bl", sx, sy + sh>>, <<"br", sx + sw, sy + sh>>}

\* the handles of the selected slot the pointer is within the tolerance of
HandlesNear(x, y) ==
    IF editingSlotIndex = -1 THEN {}
    ELSE {c[1] : c \in {c \in Corners(photoSlots[editingSlotIndex + 1], scale) :
                           /\ 2 * Abs(x - c[2]) < (HANDLE_SIZE + 6) * Sub
                           /\ 2 * Abs(y - c[3]) < (HANDLE_SIZE + 6) * Sub}}

\* the JS indices of the displayed slot rectangles the pointer lies inside
SlotsUnder(x, y) ==
    {i \in 0..(Len(photoSlots) - 1) :
        LET s == photoSlots[i + 1]
        IN  /\ s.x * Sub <= x * scale /\ x * scale <= (s.x + s.width) * Sub
            /\ s.y * Sub <= y * scale /\ y * scale <= (s.y + s.height) * Sub}

OppositeCorner(slot, handle) ==
    CASE handle = "br" -> <<slot.x, slot.y>>
      [] handle = "tl" -> <<slot.x + slot.width, slot.y + slot.height>>
      [] handle = "tr" -> <<slot.x, slot.y + slot.height>>
      [] handle = "bl" -> <<slot.x + slot.width, slot.y>>

\* C29: a mousemove that changes the slots during a gesture changes the active
\* slot only; when the gesture is a resize, the corner opposite to the dragged
\* handle stays where it was, wherever the pointer is.
C29_OppositeCornerFixed ==
    [][photoSlots' # photoSlots =>
        /\ isDragging \/ isResizing
        /\ activeSlot >= 0 /\ activeSlot < Len(photoSlots)
        /\ Len(photoSlots') = Len(photoSlots)
        /\ \A i \in 1..Len(photoSlots) :
              i # activeSlot + 1 => photoSlots'[i] = photoSlots[i]
        /\ ~isDragging =>
              /\ resizeHandle \in {"br", "tl", "tr", "bl"}
              /\ OppositeCorner(photoSlots'[activeSlot + 1], resizeHandle)
                    = OppositeCorner(photoSlots[activeSlot + 1], resizeHandle)]_vars

\* a resize by the bottom-left handle has moved that corner of the active slot
C29_Witness ==
    /\ isResizing /\ ~isDragging /\ resizeHandle = "bl"
    /\ activeSlot >= 0 /\ activeSlot < Len(photoSlots)
    /\ photoSlots[activeSlot + 1].x = 0
    /\ photoSlots[activeSlot + 1].width = MIN_SLOT_SIZE + 1


\* C30: a shot count change whose confirmation is declined leaves shotCount
\* and every slot as they were; an accepted one sets shotCount to the new count
\* and replaces the slot list by that many freshly generated default slots.
C30_ShotCountConfirmed ==
    [][(confirmDialog' # confirmDialog \/ shotCount' # shotCount) =>
        IF confirmDialog'.accepted
        THEN /\ shotCount' = confirmDialog'.newCount
             /\ Len(photoSlots') = confirmDialog'.newCount
             /\ photoSlots' = initializeDefaultSlots(frameWidth, frameHeight,
                                                     confirmDialog'.newCount)
             /\ UNCHANGED <<frameWidth, frameHeight>>
        ELSE UNCHANGED <<shotCount, photoSlots>>]_vars

\* a change to three shots was accepted after a slot had been picked up: three
\* default slots replace the two edited ones
C30_Witness ==
    /\ confirmDialog = [newCount |-> 3, accepted |-> TRUE]
    /\ shotCount = 3
    /\ Len(photoSlots) = 3
    /\ photoSlots = initializeDefaultSlots(frameWidth, frameHeight, 3)
    /\ editingSlotIndex # -1


\* the canvas of composite k when its frame artwork has loaded and been drawn
OnloadCanvas(k) ==
    IF k \in 1..Len(promises) /\ promises[k].state = "resolved"
       /\ promises[k].canvas[1].via = "onload"
    THEN promises[k].canvas
    ELSE <<>>

\* C31: a strip composited over a loaded frame artwork is drawn in the order
\* white background, captured frame i into slot i in index order, frame
\* artwork; nothing but decorations follows the artwork, and a template that
\* carries decorations has them drawn there, last.
C31_LayerOrder ==
    \A k \in 1..MaxComposites :
        OnloadCanvas(k) # <<>> =>
            LET L == OnloadCanvas(k)[1].layers
                template == promises[k].template
                n == Min(Len(promises[k].frames), Len(template.photoSlots))
            IN  /\ Len(L) >= n + 2
                /\ L[1].op = "fillRect"
                /\ \A i \in 1..n : L[i + 1] = Layer("photo", i - 1)
                /\ L[n + 2].op = "artwork"
                /\ \A j \in (n + 3)..Len(L) : L[j].op = "decorations"
                /\ HasDesign(template) => Len(L) > n + 2


\* a fraction in lowest terms
RECURSIVE Gcd(_, _)
Gcd(a, b) == IF b = 0 THEN a ELSE Gcd(b, a % b)
Lowest(q) ==
    LET g == Gcd(Abs(q.n), Abs(q.d))
    IN  IF g = 0 THEN q ELSE Q(q.n \div g, q.d \div g)

\* the k-th composite went through the slots of a frame-image template: the
\* artwork's load event has been handled
SlotsFilled(k) ==
    /\ k \in 1..Len(promises)
    /\ promises[k].template.style = "custom-frame"
    /\ promises[k].state # "loading"
    /\ promises[k].state = "resolved" => promises[k].canvas[1].via = "onload"

\* C32: when the slots of a frame-image template are filled, every frame i
\* below the number of frames and of slots is drawn into exactly slot i from
\* the centred crop of the frame that has the slot's aspect ratio; there is
\* no other photo draw.
C32_SlotFilling ==
    \A k \in 1..MaxComposites :
        SlotsFilled(k) =>
            /\ promises[k].state = "resolved"
            /\ LET c == promises[k].canvas[1]
                   frames == promises[k].frames
                   slots == promises[k].template.photoSlots
                   n == Min(Len(frames), Len(slots))
               IN  /\ Len(c.draws) = n /\ Len(c.crops) = n
                   /\ \A i \in 1..n :
                        LET W == Q(frames[i].width, 1)
                            H == Q(frames[i].height, 1)
                            sx == Lowest(c.crops[i].sx)
                            sy == Lowest(c.crops[i].sy)
                            sw == Lowest(c.crops[i].sw)
                            sh == Lowest(c.crops[i].sh)
                        IN  /\ c.draws[i].frame = i
                            /\ c.draws[i].area = slots[i]
                            /\ QEq(Lowest(QMul(sw, Q(slots[i].height, 1))),
                                   Lowest(QMul(sh, Q(slots[i].width, 1))))
                            /\ QEq(Lowest(QSub(W, sw)), Lowest(QMul(Q(2, 1), sx)))
                            /\ QEq(Lowest(QSub(H, sh)), Lowest(QMul(Q(2, 1), sy)))
                            /\ ~QGt(Q(0, 1), sx) /\ ~QGt(Q(0, 1), sy)
                            /\ (QEq(sw, W) \/ QEq(sh, H))


\* the slot rectangles of the k-th composite, as its template gives them
SlotRects(k) ==
    LET t == promises[k].template
        via == promises[k].canvas[1].via
        shots == IF Has(t, "shots") /\ t.shots # 0 THEN t.shots
                 ELSE Len(promises[k].frames)
    IN  CASE via = "single" -> <<calculatePhotoArea(t)>>
          [] via = "onload" -> t.photoSlots
          [] OTHER -> calculateStripPhotoAreas(t, shots, STRIP_WIDTH, STRIP_HEIGHT)

\* C33: every photo of a finished composite, single or strip, is drawn
\* flipped exactly when the mirrored argument was set, and occupies exactly
\* its slot rectangle either way.
C33_Mirroring ==
    \A k \in 1..Len(promises) :
        promises[k].state = "resolved" =>
            \A i \in 1..Len(promises[k].canvas[1].draws) :
                LET d == promises[k].canvas[1].draws[i]
                IN  /\ d.flipped = promises[k].isMirrored
                    /\ d.area = SlotRects(k)[d.frame]


\* C34: at most one countdown interval is live, the pending timers belong to
\* at most one capture sequence, and while isBusy() is false no countdown
\* interval, flash timeout or inter-shot timeout is pending.
C34_BusyMatchesTimers ==
    /\ Cardinality({t \in timers : t.kind = "interval"}) <= 1
    /\ Cardinality({t.call : t \in timers}) <= 1
    /\ ~isCapturing => timers = {}


\* the latest capture was aborted by the back button and none was started since
SessionAborted == Len(calls) > 0 /\ calls[Len(calls)].cancelled

\* C35: from the back button pressed during a capture until the next capture
\* is started, the session frame list is empty, the aborted capture produces
\* no composite, and the review screen is not shown.
C35_BackAbortsSession ==
    SessionAborted =>
        /\ capturedFrames = <<>>
        /\ \A k \in composites : k.call # Len(calls)
        /\ currentScreen # "review"


\* C36: from a stopCamera() call until the next startCamera() call no
\* acquired stream has un-stopped tracks, whether its getUserMedia request had
\* settled or was still pending when stopCamera ran.
C36_StoppedCameraStaysStopped ==
    cameraStopped => liveStreams = {}


\* C37: no two persisted templates carry the same id.
C37_UniqueIds ==
    \A i, j \in 1..Len(store) :
        (i # j /\ Has(store[i], "id") /\ Has(store[j], "id")) => store[i].id # store[j].id


\* Templates.getSelected() in the current state
SelectedTemplate ==
    IF selectedTemplateId = "" THEN <<>> ELSE TemplatesGetById(store, selectedTemplateId)

\* C38: a custom template never shadows a built-in one: getById on a default
\* id returns the built-in template with its original fields, and so does
\* getSelected once a default id is selected.
C38_DefaultsNotShadowed ==
    /\ \A i \in 1..Len(defaultTemplates) :
           TemplatesGetById(store, defaultTemplates[i].id) = <<defaultTemplates[i]>>
    /\ \A i \in 1..Len(defaultTemplates) :
           selectedTemplateId = defaultTemplates[i].id
               => SelectedTemplate = <<defaultTemplates[i]>>


\* C39: the gesture state is well-formed in every reachable state: isDragging
\* and isResizing are never both true, activeSlot is non-null exactly when
\* one of them is true, and resizeHandle is non-null exactly when isResizing
\* is true (mouseup and mouseleave, which clear all four, keep it so).
C39_GestureWellFormed ==
    /\ ~(isDragging /\ isResizing)
    /\ (activeSlot # Null) <=> (isDragging \/ isResizing)
    /\ (resizeHandle # "null") <=> isResizing


\* C40: whenever the editor holds a loaded frame image, frameWidth and
\* frameHeight are the dimensions of that frame (a loaded image is at least
\* one pixel wide and high) and the number of slots equals shotCount.
C40_FrameStateConsistent ==
    frameImage # "null" =>
        /\ frameWidth > 0
        /\ frameHeight > 0
        /\ Len(photoSlots) = shotCount

====
